---- MODULE Spec2Model ----
(***************************************************************************)
(* Capture-and-replay engine of the session recorder.                      *)
(*                                                                         *)
(*   Spec        chunk transport: the recording agent's buffer and flushes *)
(*               (public/recording-script.js) against the chunk endpoint   *)
(*               (api/sessions/chunks), with transport faults and          *)
(*               credential rejection                                      *)
(*   LiveSpec    chunk transport with a credential that is never revoked,  *)
(*               fair timers and fair delivery of responses                *)
(*   PageSpec    the agent on a page that navigates: URL-change poll,      *)
(*               history hooks, snapshot timer, credential rejection       *)
(*   ReplaySpec  the replay page: loading a session and seeking in it      *)
(***************************************************************************)
EXTENDS Integers, Sequences, FiniteSets, TLC

(***************************************************************************)
(* Bounds of the model.                                                    *)
(***************************************************************************)
\* events one page load records
MaxEvents == 4
\* wall-clock milliseconds that pass
MaxTime == 1
\* transport faults (network errors, non-2xx answers other than 401)
MaxFaults == 1
\* saveChunk calls awaiting a response at the same time
MaxInflight == 2
\* Date.now() when the script is constructed, in ms after the epoch (any
\* value of at least 5000 behaves alike)
PageLoad == 5000
\* events the mutation observer's handlers record after start()
MaxObserved == 2
\* mutation records of one kind in a batch delivered to the observer
MaxBatch == 5
\* mutation records waiting in pendingMutations
MaxPending == 5
\* milliseconds the observed page lives
MaxElapsed == 5000
\* events recorded on the page that scrolls and types without a pause
MaxBurst == 14
\* upsert-session requests sent, and requests the endpoint handles at once
MaxPosts == 3
MaxUpserts == 2
\* events of a stored session the replay page loads
MaxStored == 3
\* the recorded times of a stored session, in units of 25 ms after the first
\* flush (25 ms is what a tick of the playback advances at 0.5x)
MaxStamp == 2
\* events of a session that is played back
MaxPlayed == 3
\* the replay container's clientWidth and clientHeight, and the width and
\* height of the recorded viewport, in px
MaxContainer == 4
MaxViewport == 4

(***************************************************************************)
(* Program constants.                                                      *)
(***************************************************************************)
\* recordEvent flushes when events.length > 10
BufferLimit == 10
\* this.domSnapshotThrottle, ms between two drains of pendingMutations
domSnapshotThrottle == 500
\* checkForSignificantChanges returns within this many ms of lastDomSnapshotTime
SnapshotQuiet == 5000
\* checkForSignificantChanges takes a snapshot at this score
SignificanceThreshold == 5

\* window.location.href takes these values (one origin, a single-page app)
Urls == {"/a", "/b"}

\* this.sessionId: one page load, one session
SessionId == "s1"

VARIABLES
    \* ---- RecordingScript instance
    events,            \* this.events, the live capture buffer
    isRecording,       \* this.isRecording
    currentUrl,        \* this.currentUrl
    listening,         \* the document listeners of boundHandlers are attached
    snapshotInterval,  \* this.snapshotInterval is set (the 10 s snapshot timer)
    inflight,          \* pending saveChunk calls, each at one of its awaits
    lastDomSnapshotTime,  \* this.lastDomSnapshotTime, a Date.now() value or 0
    mutationObserver,  \* this.mutationObserver observes the document
    pendingMutations,  \* this.pendingMutations, the records not yet drained
    processingMutations,  \* this.processingMutations
    drainDue,          \* the Date.now() value at which the setTimeout of
                       \* processMutationQueue fires, 0 when none is pending
    \* ---- host page
    location,          \* window.location.href
    now,               \* the last value read from Date.now()
    \* ---- ingestion service (api_keys and session_chunks tables)
    keyValid,          \* the api_keys row of this.apiKey exists and matches the host
    chunks,            \* the session_chunks table, in insertion order
    \* ---- history (not program state)
    nextId,            \* capture-order number of the next recorded event
    faults,            \* transport faults so far
    accepted,          \* ids of events the chunk endpoint answered success for
    rejected,          \* a 401 was received since the last start()
    skipped,           \* what the chunk endpoint skipped as duplicate: "same"
                       \* (a chunk with the stored events), "other"
    op,                \* what ran last: "new" (the constructor), "start", "stop",
                       \* "requeue" (the catch block of saveChunk), "load"
                       \* (fetchSessionData), "seek" (handleTimelineChange),
                       \* "observe" (the MutationObserver callback),
                       \* "upsert" (the write of createSessionHandler),
                       \* "play" (handlePlayPause), "speed"
                       \* (setPlaybackSpeed), "tick" (the 50 ms interval of
                       \* the playback effect)
                       \* or "other"
    \* ---- replay page (SessionReplayPage)
    chunksData,        \* the chunks get-chunks returns, in arrival order
    loaded,            \* fetchSessionData has run
    replayEvents,      \* the events state (NormalizedEvent[])
    currentTime,       \* the currentTime state
    isPlaying,         \* the isPlaying state
    cursorPosition,    \* the cursorPosition state: the id of the event whose
                       \* data.x, data.y it holds, 0 for the initial {x: 0, y: 0}
    reconstructedDom,  \* the reconstructedDom state: the id of the snapshot
                       \* whose data.html it holds, 0 for the initial ""
    replayUrl,         \* the currentUrl state of the replay page: the id of the
                       \* session_start whose data.url it holds, 0 for the
                       \* session's url, -1 for undefined
    playbackSpeed,     \* the playbackSpeed state, in halves: 1 is 0.5x, 2 is 1x
    playFrom,          \* history: the cursor the current run of ticks set out
                       \* from (the last value a handler other than the tick
                       \* gave currentTime)
    playLog,           \* history: the events the ticks applied since then
    \* ---- ingestion service (sessions table) and its clients
    sessions,          \* the rows of the sessions table with id SessionId
    upserts,           \* the upsert-session requests under way, each before
                       \* or after the handler's select
    posted,            \* history: the number of upsert-session requests sent
    \* ---- replay view (ReplayView)
    container,         \* clientWidth and clientHeight of containerRef.current
    viewportSize,      \* the viewportSize prop
    scale,             \* the scale prop, a fraction [num, den]
    computedScale,     \* the computedScale state, a fraction
    contentPosition,   \* the contentPosition state
    point,             \* the cursorPosition prop, in px of the recorded viewport
    transformed,       \* transformedCursorPosition of the last render
    synced,            \* history: updateScaleAndPosition has run
    \* ---- recorded page (the DOM the agent reads and marks)
    element,           \* one element of the page: its tagName, id, className,
                       \* its index among the siblings with its tag and its
                       \* data-hotclone-id attribute
    firstId,           \* history: what the first getOrCreateElementId returned
    lastId,            \* history: what the latest getOrCreateElementId returned
    calls,             \* history: the number of getOrCreateElementId calls
    surface,           \* the element when it is a canvas: its width, height,
                       \* what is drawn on it (0: nothing) and whether
                       \* toDataURL throws (tainted)
    snapshot,          \* the latest dom_snapshot recorded of the page: the
                       \* attributes of the canvas in data.html and
                       \* data.canvasElements
    replayed,          \* the canvas of the replayed tree (DomRenderer)
    lastMouseMoveTime, \* this.lastMouseMoveTime of the recorder
    clickEffect,       \* the clickEffect state of the replay page (show) and
                       \* the timeouts that will hide it, each as the number
                       \* of 50 ms periods until it fires
    submissions,       \* the submit-chunk requests under way in the handler,
                       \* each before or after its lookup
    credential,        \* one credential check of each ingestion endpoint for a
                       \* key's allowed_url and a request's key and url
    gesture,           \* the mousedown/mouseup listener pairs on a canvas, the
                       \* 50 ms timeouts pending and, as history, a gesture's
                       \* phase and the snapshots taken at its two ends
    limiter,           \* globalRateLimiter: the clock (ms), this.store and, as
                       \* history, the calls of the open window and the result
                       \* of the last call
    window,            \* window._hotcloneRecorderInstance is set and, as history,
                       \* the calls of initializeRecording, what they
                       \* constructed and registered and what the last returned
    tracker            \* the tracking of the drawing operations on a canvas:
                       \* the clock (ms), this.canvasSnapshotTimeout,
                       \* this.lastCanvasOperation and, as history, the times
                       \* at which the timer's callback took a capture

observerVars == <<mutationObserver, pendingMutations, processingMutations, drainDue>>

captureVars == <<events, isRecording, currentUrl, listening, snapshotInterval,
                 inflight, lastDomSnapshotTime, observerVars, location, now,
                 keyValid, chunks, nextId, faults, accepted, rejected, skipped, op>>

replayVars == <<chunksData, loaded, replayEvents, currentTime, isPlaying,
                cursorPosition, reconstructedDom, replayUrl, playbackSpeed,
                playFrom, playLog>>

sessionVars == <<sessions, upserts, posted>>

viewVars == <<container, viewportSize, scale, computedScale, contentPosition,
              point, transformed, synced>>

elementVars == <<element, firstId, lastId, calls>>

canvasVars == <<surface, snapshot, replayed>>

pageVars == <<elementVars, canvasVars, tracker, lastMouseMoveTime, clickEffect,
              submissions,
                 credential,
                 gesture,
                 limiter,
                 window>>

\* what the recorder's handlers and the chunk responses leave alone
beyondCapture == <<replayVars, sessionVars, viewVars, pageVars>>

vars == <<captureVars, replayVars, sessionVars, viewVars, pageVars>>

(***************************************************************************)
(* Sequence helpers.                                                       *)
(***************************************************************************)
RemoveAt(s, k) == [i \in 1..(Len(s) - 1) |-> IF i < k THEN s[i] ELSE s[i + 1]]

Ids(s) == {s[i].id : i \in DOMAIN s}

(***************************************************************************)
(* The recorder.  recordEvent and saveChunk are called from inside other   *)
(* handlers, several times in one handler, so they are operators on the    *)
(* part of the recorder they change,                                       *)
(*   r = [isRecording, events, inflight, nextId, lastDomSnapshotTime],     *)
(* and t is the value the handler reads from Date.now().                   *)
(***************************************************************************)
Rec == [isRecording |-> isRecording, events |-> events,
        inflight |-> inflight, nextId |-> nextId,
        lastDomSnapshotTime |-> lastDomSnapshotTime]

\* Date.now() when the handler's clock reads t: t counts the milliseconds
\* since the script was constructed
DateNow(t) == PageLoad + t

\* The event object recordEvent pushes.  Of data the model keeps
\* data.timestamp (time) and data.url; the relative timestamp field
\* (Date.now() - startTime) is read by nobody: the chunk endpoint hashes
\* data.timestamp and the replay page overwrites timestamp.
NewEvent(r, type, url, t) ==
    [id |-> r.nextId, type |-> type, time |-> t, url |-> url]

\* A flush that sends a copy of the buffer and leaves the buffer as it is
saveChunk_Copy(r) ==
    IF r.events = <<>>
    THEN r
    ELSE [r EXCEPT !.inflight = Append(@, [chunk |-> r.events, stage |-> "upsert"])]

\* saveChunk up to its first await: splice the buffer, send the upsert.
saveChunk(r) ==
    IF r.events = <<>>
    THEN r
    ELSE [r EXCEPT !.inflight = Append(@, [chunk |-> r.events, stage |-> "upsert"]),
                   !.events = <<>>]

recordEvent(r, type, url, t) ==
    IF ~r.isRecording
    THEN r
    ELSE LET pushed == [r EXCEPT !.events = Append(@, NewEvent(r, type, url, t)),
                                 !.nextId = @ + 1]
         IN  IF Len(pushed.events) > BufferLimit THEN saveChunk(pushed) ELSE pushed

\* A catch block that pushes the chunk at the tail of the buffer
Requeue_AtTail(chunk, buffer) == buffer \o chunk

\* The catch block of saveChunk: this.events.unshift(...chunk)
Requeue(chunk, buffer) == chunk \o buffer

captureFullDomSnapshot(r, t) ==
    IF ~r.isRecording
    THEN r
    ELSE [recordEvent(r, "dom_snapshot", location, t)
            EXCEPT !.lastDomSnapshotTime = DateNow(t)]

\* An initial capture that records the snapshot only
captureInitialDomState_SnapshotOnly(r, t) ==
    recordEvent(r, "dom_snapshot", location, t)

\* captureInitialDomState; its scheduleDomSnapshots() is in start
captureInitialDomState(r, t) ==
    recordEvent(recordEvent(r, "initial_dom_state", location, t),
                "dom_snapshot", location, t)

\* The model's bounds, as a guard on the result of a handler
WithinBounds(r) ==
    /\ r.nextId <= MaxEvents + 1
    /\ Len(r.inflight) <= MaxInflight

\* The bounds of the page that scrolls and types without a pause
BurstWithin(r) ==
    /\ r.nextId <= MaxBurst + 1
    /\ Len(r.inflight) <= MaxInflight

Commit(r) ==
    /\ isRecording' = r.isRecording
    /\ events' = r.events
    /\ inflight' = r.inflight
    /\ nextId' = r.nextId
    /\ lastDomSnapshotTime' = r.lastDomSnapshotTime

\* Date.now() as a handler reads it: not before the last reading
Clock == now..MaxTime

(***************************************************************************)
(* The mutation observer.  A list of MutationRecords (the argument of the  *)
(* callback, this.pendingMutations) is kept as the number of its records   *)
(* of each kind:                                                           *)
(*   significant  attribute records for class, style, src, href, display   *)
(*   other        attribute records for any other attribute                *)
(*   added        childList records adding one element                     *)
(*   text         characterData records of a text node inside an element   *)
(* The page adds no canvas, input, select, textarea, button, draggable or  *)
(* contenteditable element (processDomAddition collects only those) and    *)
(* removes no node; it has no canvas, so captureChangedCanvases records    *)
(* nothing.                                                                *)
(***************************************************************************)
NoRecords == [significant |-> 0, other |-> 0, added |-> 0, text |-> 0]

\* pendingMutations.push(...mutations)
Push(pending, mutations) ==
    [significant |-> pending.significant + mutations.significant,
     other |-> pending.other + mutations.other,
     added |-> pending.added + mutations.added,
     text |-> pending.text + mutations.text]

\* mutations.length
Length(mutations) ==
    mutations.significant + mutations.other + mutations.added + mutations.text

\* twice the significanceScore of checkForSignificantChanges (it adds 0.5
\* for a characterData record)
significanceScore2(mutations) ==
    4 * mutations.added + 2 * mutations.significant + mutations.text

\* hasSignificantChanges of processMutationQueue, over the drained records:
\* changes.addedNodes and changes.removedNodes stay empty on this page
hasSignificantChanges(mutations) ==
    \/ mutations.significant + mutations.other > 0
    \/ mutations.text > 0

(***************************************************************************)
(* The chunk endpoint, POST /api/sessions/chunks.                          *)
(***************************************************************************)
generateChunkHash(sessionId, evs) ==
    IF evs = <<>>
    THEN <<>>
    ELSE <<sessionId, Len(evs), evs[1].type, evs[Len(evs)].type, evs[1].time>>

\* A lookup that never finds a stored chunk
existingChunk_Never(store, h) == FALSE

\* select("id").eq("hash", h).single(): data only when exactly one row matches
existingChunk(store, h) ==
    Cardinality({i \in DOMAIN store : store[i].hash = h}) = 1

\* The handler past the credential check, on the session_chunks table
POST(store, sessionId, evs) ==
    LET chunkHash == generateChunkHash(sessionId, evs)
    IN  IF evs = <<>> \/ existingChunk(store, chunkHash)
        THEN store
        ELSE Append(store, [session_id |-> sessionId, events |-> evs,
                            hash |-> chunkHash])

\* History: the kind of duplicate the handler skips on this request
Skip(store, sessionId, evs) ==
    IF evs # <<>> /\ existingChunk(store, generateChunkHash(sessionId, evs))
    THEN IF \E i \in DOMAIN store : store[i].events = evs THEN {"same"} ELSE {"other"}
    ELSE {}

(***************************************************************************)
(* Initial state: after new RecordingScript(apiKey).                       *)
(***************************************************************************)
CaptureInit ==
    /\ events = <<>>
    /\ isRecording = FALSE
    /\ location = "/a"
    /\ currentUrl = location
    /\ listening = FALSE
    /\ snapshotInterval = FALSE
    /\ inflight = <<>>
    /\ lastDomSnapshotTime = 0
    /\ mutationObserver = FALSE
    /\ pendingMutations = NoRecords
    /\ processingMutations = FALSE
    /\ drainDue = 0
    /\ now = 0
    /\ keyValid = TRUE
    /\ chunks = <<>>
    /\ nextId = 1
    /\ faults = 0
    /\ accepted = {}
    /\ rejected = FALSE
    /\ skipped = {}
    /\ op = "new"
    /\ sessions = {}
    /\ upserts = {}
    /\ posted = 0

ReplayIdle ==
    /\ chunksData = <<>>
    /\ loaded = FALSE
    /\ replayEvents = <<>>
    /\ currentTime = 0
    /\ isPlaying = FALSE
    /\ cursorPosition = 0
    /\ reconstructedDom = 0
    /\ replayUrl = -1
    /\ playbackSpeed = 2
    /\ playFrom = 0
    /\ playLog = <<>>

\* no domId: what the history variables hold before the first call
NoId == [tag |-> "", className |-> <<>>, hash |-> <<>>]

\* a div without id and class, first of its kind under body, not yet marked
ElementIdle ==
    /\ element = [tagName |-> "DIV", id |-> "", className |-> <<>>, ix |-> 1,
                  marked |-> FALSE, marker |-> NoId]
    /\ firstId = NoId
    /\ lastId = NoId
    /\ calls = 0

\* no data URL (toDataURL threw) and no snapshot
NoUrl == [set |-> FALSE, pixels |-> 0]

NoCanvas == [id |-> "", marked |-> FALSE, marker |-> NoId, width |-> 0, height |-> 0]

CanvasIdle ==
    /\ surface = [width |-> 1, height |-> 1, bitmap |-> 0, tainted |-> FALSE]
    /\ snapshot = [taken |-> FALSE, html |-> NoCanvas, canvasElements |-> <<>>]
    /\ replayed = [adopted |-> FALSE, canvas |-> NoCanvas, bitmap |-> 0,
                   redrawn |-> FALSE]

\* what the variables of a part of the page hold on a page without it
Absent == <<>>

ElementAbsent ==
    /\ element = Absent
    /\ firstId = Absent
    /\ lastId = Absent
    /\ calls = Absent

CanvasAbsent ==
    /\ surface = Absent
    /\ snapshot = Absent
    /\ replayed = Absent

TrackerAbsent == tracker = Absent

\* the constructor: this.lastMouseMoveTime = 0
PointerIdle == lastMouseMoveTime = 0

\* useState({x: 0, y: 0, show: false}), no timeout pending
PulseIdle == clickEffect = [show |-> FALSE, timers |-> <<>>]

\* a page without the elements the specifications below are about
\* no submit-chunk request is in the handler
SubmitIdle == submissions = <<>>

\* no request has reached a credential check
CredentialIdle == credential = <<>>

\* no canvas carries a gesture listener
GestureIdle == gesture = <<>>

\* no request has reached the rate limiter
LimiterIdle == limiter = <<>>

\* initializeRecording has not been called
WindowIdle == window = <<>>

PageIdle ==
    /\ ElementAbsent /\ CanvasAbsent /\ TrackerAbsent /\ PointerIdle /\ PulseIdle
    /\ SubmitIdle
    /\ CredentialIdle
    /\ GestureIdle
    /\ LimiterIdle
    /\ WindowIdle

\* ReplayView as the page mounts it: no viewport size yet, scale 1
ViewIdle ==
    /\ container = [width |-> 1, height |-> 1]
    /\ viewportSize = [width |-> 0, height |-> 0]
    /\ scale = [num |-> 1, den |-> 1]
    /\ computedScale = scale
    /\ contentPosition = [x |-> 0, y |-> 0]
    /\ point = [x |-> 0, y |-> 0]
    /\ transformed = [x |-> 0, y |-> 0]
    /\ synced = FALSE

Init == CaptureInit /\ ReplayIdle /\ ViewIdle /\ PageIdle

(***************************************************************************)
(* Recorder operations.                                                    *)
(***************************************************************************)
serverVars == <<keyValid, chunks, accepted, skipped>>

\* start(), called by initializeRecording or on the instance it returns.
\* this.startTime goes into the upsert body and the relative timestamps
\* only, which the model does not keep.
start(t) ==
    /\ op' = "start"
    /\ IF isRecording
       THEN UNCHANGED <<events, isRecording, listening, snapshotInterval,
                        inflight, nextId, rejected, now, lastDomSnapshotTime,
                        mutationObserver>>
       ELSE LET r0 == [Rec EXCEPT !.isRecording = TRUE]
                r1 == captureInitialDomState(r0, t)
                r2 == recordEvent(r1, "session_start", location, t)
                r3 == saveChunk(r2)
            IN  /\ WithinBounds(r3)
                /\ Commit(r3)
                /\ listening' = TRUE
                /\ snapshotInterval' = TRUE
                /\ rejected' = FALSE
                /\ mutationObserver' = TRUE
                /\ now' = t
    /\ UNCHANGED <<currentUrl, location, faults, pendingMutations,
                   processingMutations, drainDue>>
    /\ UNCHANGED serverVars

\* stop().  It ends with saveSession(): one more upsert, whose answer the
\* recorder does not use (it stores data.id, the id it sent) and which
\* touches the sessions table only; the buffer is not part of that request.
stop(t) ==
    /\ op' = "stop"
    /\ IF ~isRecording
       THEN UNCHANGED <<events, isRecording, listening, snapshotInterval,
                        inflight, nextId, now, lastDomSnapshotTime>>
       ELSE LET r0 == [Rec EXCEPT !.isRecording = FALSE]
                r1 == recordEvent(r0, "session_end", "", t)
                r2 == captureFullDomSnapshot(r1, t)
            IN  /\ WithinBounds(r2)
                /\ Commit(r2)
                /\ listening' = FALSE
                /\ snapshotInterval' = FALSE
                /\ now' = t
    /\ UNCHANGED <<currentUrl, location, faults, rejected>>
    /\ UNCHANGED observerVars
    /\ UNCHANGED serverVars

\* a click on the page while the document listeners are attached
handleClick(t) ==
    /\ op' = "other"
    /\ listening
    /\ LET r1 == recordEvent(Rec, "click", "", t)
       IN  WithinBounds(r1) /\ Commit(r1)
    /\ now' = IF isRecording THEN t ELSE now
    /\ UNCHANGED <<currentUrl, listening, snapshotInterval, location, faults,
                   rejected>>
    /\ UNCHANGED observerVars
    /\ UNCHANGED serverVars

\* a scroll of the page while the document listeners are attached
handleScroll(t) ==
    /\ op' = "other"
    /\ listening
    /\ LET r1 == recordEvent(Rec, "scroll", "", t)
       IN  BurstWithin(r1) /\ Commit(r1)
    /\ now' = IF isRecording THEN t ELSE now
    /\ UNCHANGED <<currentUrl, listening, snapshotInterval, location, faults,
                   rejected>>
    /\ UNCHANGED observerVars
    /\ UNCHANGED serverVars

\* an input event on the page while the document listeners are attached
handleInput(t) ==
    /\ op' = "other"
    /\ listening
    /\ LET r1 == recordEvent(Rec, "input", "", t)
       IN  BurstWithin(r1) /\ Commit(r1)
    /\ now' = IF isRecording THEN t ELSE now
    /\ UNCHANGED <<currentUrl, listening, snapshotInterval, location, faults,
                   rejected>>
    /\ UNCHANGED observerVars
    /\ UNCHANGED serverVars

\* the 10 s interval of scheduleDomSnapshots
snapshotTimer(t) ==
    /\ op' = "other"
    /\ snapshotInterval
    /\ LET r1 == captureFullDomSnapshot(Rec, t)
       IN  WithinBounds(r1) /\ Commit(r1)
    /\ now' = IF isRecording THEN t ELSE now
    /\ UNCHANGED <<currentUrl, listening, snapshotInterval, location, faults,
                   rejected>>
    /\ UNCHANGED observerVars
    /\ UNCHANGED serverVars

\* the 5 s interval of initializeRecording
periodicFlush ==
    /\ op' = "other"
    /\ LET r1 == IF isRecording THEN saveChunk(Rec) ELSE Rec
       IN  WithinBounds(r1) /\ Commit(r1)
    /\ UNCHANGED <<currentUrl, listening, snapshotInterval, location, now, faults,
                   rejected>>
    /\ UNCHANGED observerVars
    /\ UNCHANGED serverVars

\* A body that records the boundary and flushes but leaves this.currentUrl
\* as it was
UrlChanged_KeepUrl(href, t) ==
    IF currentUrl # href
    THEN LET r1 == recordEvent(Rec, "session_start", href, t)
             r2 == saveChunk(r1)
         IN  /\ WithinBounds(r2)
             /\ Commit(r2)
             /\ currentUrl' = currentUrl
             /\ now' = IF isRecording THEN t ELSE now
    ELSE UNCHANGED <<events, isRecording, inflight, nextId, currentUrl, now,
                     lastDomSnapshotTime>>

\* The body shared by handleUrlChange and the 500 ms poll, run with
\* window.location.href = href
UrlChanged(href, t) ==
    IF currentUrl # href
    THEN LET r1 == recordEvent(Rec, "session_start", href, t)
             r2 == saveChunk(r1)
         IN  /\ WithinBounds(r2)
             /\ Commit(r2)
             /\ currentUrl' = href
             /\ now' = IF isRecording THEN t ELSE now
    ELSE UNCHANGED <<events, isRecording, inflight, nextId, currentUrl, now,
                     lastDomSnapshotTime>>

\* the 500 ms interval of setupUrlChangeDetection
urlPoll(t) ==
    /\ op' = "other"
    /\ UrlChanged(location, t)
    /\ UNCHANGED <<listening, snapshotInterval, location, faults, rejected>>
    /\ UNCHANGED observerVars
    /\ UNCHANGED serverVars

\* history.pushState / replaceState / popstate: the URL becomes u and
\* handleUrlChange runs in the same task
handleUrlChange(u, t) ==
    /\ op' = "other"
    /\ location' = u
    /\ UrlChanged(u, t)
    /\ UNCHANGED <<listening, snapshotInterval, faults, rejected>>
    /\ UNCHANGED observerVars
    /\ UNCHANGED serverVars

\* a navigation inside the page that no hook sees (a fragment link)
navigate(u) ==
    /\ op' = "other"
    /\ u # location
    /\ location' = u
    /\ UNCHANGED <<events, isRecording, currentUrl, listening, snapshotInterval,
                   inflight, now, nextId, faults, rejected, lastDomSnapshotTime>>
    /\ UNCHANGED observerVars
    /\ UNCHANGED serverVars

\* DELETE /api/keys removes the credential
revokeKey ==
    /\ op' = "other"
    /\ keyValid
    /\ keyValid' = FALSE
    /\ UNCHANGED <<events, isRecording, currentUrl, listening, snapshotInterval,
                   inflight, location, now, nextId, faults, rejected, chunks,
                   accepted, skipped, lastDomSnapshotTime>>
    /\ UNCHANGED observerVars

(***************************************************************************)
(* The mutation observer's handlers.                                       *)
(***************************************************************************)
\* the observer's part of the recorder, with r the part recordEvent changes
Obs == [r |-> Rec, pendingMutations |-> pendingMutations,
        processingMutations |-> processingMutations, drainDue |-> drainDue]

\* a processMutationQueue whose throttled branch sets no timer
processMutationQueue_NoTimer(m, t) ==
    IF Length(m.pendingMutations) = 0
    THEN [m EXCEPT !.processingMutations = FALSE]
    ELSE IF DateNow(t) - m.r.lastDomSnapshotTime < domSnapshotThrottle
         THEN [m EXCEPT !.processingMutations = TRUE]
         ELSE LET r1 == IF hasSignificantChanges(m.pendingMutations)
                        THEN [recordEvent(m.r, "dom_mutation", "", t)
                                EXCEPT !.lastDomSnapshotTime = DateNow(t)]
                        ELSE m.r
              IN  [m EXCEPT !.r = r1, !.pendingMutations = NoRecords,
                            !.processingMutations = FALSE]

\* processMutationQueue.  After the splice pendingMutations is empty, so the
\* requestAnimationFrame branch at its end is not taken.
processMutationQueue(m, t) ==
    IF Length(m.pendingMutations) = 0
    THEN [m EXCEPT !.processingMutations = FALSE]
    ELSE IF DateNow(t) - m.r.lastDomSnapshotTime < domSnapshotThrottle
         THEN [m EXCEPT !.processingMutations = TRUE,
                        !.drainDue = m.r.lastDomSnapshotTime + domSnapshotThrottle]
         ELSE LET r1 == IF hasSignificantChanges(m.pendingMutations)
                        THEN [recordEvent(m.r, "dom_mutation", "", t)
                                EXCEPT !.lastDomSnapshotTime = DateNow(t)]
                        ELSE m.r
              IN  [m EXCEPT !.r = r1, !.pendingMutations = NoRecords,
                            !.processingMutations = FALSE]

checkForSignificantChanges(r, batch, t) ==
    IF DateNow(t) - r.lastDomSnapshotTime < SnapshotQuiet
    THEN r
    ELSE IF significanceScore2(batch) >= 2 * SignificanceThreshold
         THEN captureFullDomSnapshot(r, t)
         ELSE r

\* the batches a callback can get: at least one record
Batches ==
    {b \in [significant : 0..MaxBatch, other : 0..1, added : 0..3, text : 0..1] :
        b # NoRecords}

\* the handler's results within the bounds of the observed page
ObservedWithin(m) ==
    /\ m.r.nextId <= MaxEvents + MaxObserved + 1
    /\ Len(m.r.inflight) <= MaxInflight
    /\ Length(m.pendingMutations) <= MaxPending

CommitObs(m) ==
    /\ Commit(m.r)
    /\ pendingMutations' = m.pendingMutations
    /\ processingMutations' = m.processingMutations
    /\ drainDue' = m.drainDue

\* Date.now() on the observed page: a handler runs in the millisecond of the
\* one before it, or just before or just at the end of the quiet period
ObserverClock ==
    {t \in {now + d : d \in {0, SnapshotQuiet - 1, SnapshotQuiet}} :
        t <= MaxElapsed}

\* the MutationObserver callback of setupMutationObserver
observe(batch, t) ==
    /\ op' = "observe"
    /\ mutationObserver
    /\ LET m0 == [Obs EXCEPT !.pendingMutations = Push(@, batch)]
           m1 == IF ~processingMutations THEN processMutationQueue(m0, t) ELSE m0
           m2 == [m1 EXCEPT !.r = checkForSignificantChanges(@, batch, t)]
       IN  ObservedWithin(m2) /\ CommitObs(m2)
    /\ now' = t
    /\ UNCHANGED <<currentUrl, listening, snapshotInterval, location, faults,
                   rejected, mutationObserver>>
    /\ UNCHANGED serverVars

\* the setTimeout of processMutationQueue fires
drainTimer(t) ==
    /\ op' = "other"
    /\ drainDue # 0
    /\ DateNow(t) >= drainDue
    /\ LET m1 == processMutationQueue([Obs EXCEPT !.drainDue = 0], t)
       IN  ObservedWithin(m1) /\ CommitObs(m1)
    /\ now' = t
    /\ UNCHANGED <<currentUrl, listening, snapshotInterval, location, faults,
                   rejected, mutationObserver>>
    /\ UNCHANGED serverVars

(***************************************************************************)
(* Responses.  The service handles a request and the recorder resumes the  *)
(* awaiting saveChunk in one step; k is the position of the call in        *)
(* inflight, and responses arrive in any order.                            *)
(***************************************************************************)
recorderIdle == <<currentUrl, listening, snapshotInterval, location, now, nextId,
                  lastDomSnapshotTime, observerVars>>

\* the upsert answers 2xx: saveChunk sends the chunk
upsertOk(k) ==
    /\ op' = "other"
    /\ inflight[k].stage = "upsert"
    /\ keyValid
    /\ inflight' = [inflight EXCEPT ![k].stage = "chunk"]
    /\ UNCHANGED <<events, isRecording, faults, rejected>>
    /\ UNCHANGED serverVars
    /\ UNCHANGED recorderIdle

\* the upsert answers 401: recording stops, the chunk is not put back
upsertUnauthorized(k) ==
    /\ op' = "other"
    /\ inflight[k].stage = "upsert"
    /\ ~keyValid
    /\ isRecording' = FALSE
    /\ rejected' = TRUE
    /\ inflight' = RemoveAt(inflight, k)
    /\ UNCHANGED <<events, faults>>
    /\ UNCHANGED serverVars
    /\ UNCHANGED recorderIdle

\* the upsert fails (network error, 429, 5xx): the catch block runs
upsertFail(k) ==
    /\ op' = "requeue"
    /\ inflight[k].stage = "upsert"
    /\ faults < MaxFaults
    /\ faults' = faults + 1
    /\ events' = Requeue(inflight[k].chunk, events)
    /\ inflight' = RemoveAt(inflight, k)
    /\ UNCHANGED <<isRecording, rejected>>
    /\ UNCHANGED serverVars
    /\ UNCHANGED recorderIdle

\* the chunk endpoint answers success and the recorder reads the answer
chunkOk(k) ==
    /\ op' = "other"
    /\ inflight[k].stage = "chunk"
    /\ keyValid
    /\ chunks' = POST(chunks, SessionId, inflight[k].chunk)
    /\ skipped' = skipped \cup Skip(chunks, SessionId, inflight[k].chunk)
    /\ accepted' = accepted \cup Ids(inflight[k].chunk)
    /\ inflight' = RemoveAt(inflight, k)
    /\ UNCHANGED <<events, isRecording, faults, rejected, keyValid>>
    /\ UNCHANGED recorderIdle

\* the chunk endpoint answers success but the answer is lost on the way:
\* fetch or chunkResponse.json() rejects and the catch block runs
chunkLost(k) ==
    /\ op' = "requeue"
    /\ inflight[k].stage = "chunk"
    /\ keyValid
    /\ faults < MaxFaults
    /\ faults' = faults + 1
    /\ chunks' = POST(chunks, SessionId, inflight[k].chunk)
    /\ skipped' = skipped \cup Skip(chunks, SessionId, inflight[k].chunk)
    /\ accepted' = accepted \cup Ids(inflight[k].chunk)
    /\ events' = Requeue(inflight[k].chunk, events)
    /\ inflight' = RemoveAt(inflight, k)
    /\ UNCHANGED <<isRecording, rejected, keyValid>>
    /\ UNCHANGED recorderIdle

\* the chunk endpoint answers 401
chunkUnauthorized(k) ==
    /\ op' = "other"
    /\ inflight[k].stage = "chunk"
    /\ ~keyValid
    /\ isRecording' = FALSE
    /\ rejected' = TRUE
    /\ inflight' = RemoveAt(inflight, k)
    /\ UNCHANGED <<events, faults>>
    /\ UNCHANGED serverVars
    /\ UNCHANGED recorderIdle

\* the chunk request fails before anything is stored (network error, 5xx)
chunkFail(k) ==
    /\ op' = "requeue"
    /\ inflight[k].stage = "chunk"
    /\ faults < MaxFaults
    /\ faults' = faults + 1
    /\ events' = Requeue(inflight[k].chunk, events)
    /\ inflight' = RemoveAt(inflight, k)
    /\ UNCHANGED <<isRecording, rejected>>
    /\ UNCHANGED serverVars
    /\ UNCHANGED recorderIdle

(***************************************************************************)
(* Chunk transport: the buffer, the flushes and the chunk endpoint.        *)
(***************************************************************************)
Next ==
    \/ \E t \in Clock : start(t) /\ UNCHANGED beyondCapture
    \/ \E t \in Clock : stop(t) /\ UNCHANGED beyondCapture
    \/ \E t \in Clock : handleClick(t) /\ UNCHANGED beyondCapture
    \/ periodicFlush /\ UNCHANGED beyondCapture
    \/ revokeKey /\ UNCHANGED beyondCapture
    \/ \E k \in DOMAIN inflight : upsertOk(k) /\ UNCHANGED beyondCapture
    \/ \E k \in DOMAIN inflight : upsertUnauthorized(k) /\ UNCHANGED beyondCapture
    \/ \E k \in DOMAIN inflight : upsertFail(k) /\ UNCHANGED beyondCapture
    \/ \E k \in DOMAIN inflight : chunkOk(k) /\ UNCHANGED beyondCapture
    \/ \E k \in DOMAIN inflight : chunkLost(k) /\ UNCHANGED beyondCapture
    \/ \E k \in DOMAIN inflight : chunkUnauthorized(k) /\ UNCHANGED beyondCapture
    \/ \E k \in DOMAIN inflight : chunkFail(k) /\ UNCHANGED beyondCapture

Spec == Init /\ [][Next]_vars

(***************************************************************************)
(* Chunk transport when the credential is never rejected, the timers are   *)
(* fair and every request is answered; MaxFaults makes the faults finite.  *)
(***************************************************************************)
Flush == periodicFlush /\ UNCHANGED beyondCapture

Respond ==
    \E k \in DOMAIN inflight :
        /\ upsertOk(k) \/ upsertFail(k) \/ chunkOk(k) \/ chunkLost(k) \/ chunkFail(k)
        /\ UNCHANGED beyondCapture

LiveNext ==
    \/ \E t \in Clock : start(t) /\ UNCHANGED beyondCapture
    \/ \E t \in Clock : stop(t) /\ UNCHANGED beyondCapture
    \/ \E t \in Clock : handleClick(t) /\ UNCHANGED beyondCapture
    \/ Flush
    \/ Respond

LiveSpec == Init /\ [][LiveNext]_vars /\ WF_vars(Flush) /\ WF_vars(Respond)

(***************************************************************************)
(* The agent on a page that navigates.  Requests are answered 2xx or 401.  *)
(***************************************************************************)
PageNext ==
    \/ \E t \in Clock : start(t) /\ UNCHANGED beyondCapture
    \/ \E t \in Clock : stop(t) /\ UNCHANGED beyondCapture
    \/ \E t \in Clock : handleClick(t) /\ UNCHANGED beyondCapture
    \/ \E t \in Clock : snapshotTimer(t) /\ UNCHANGED beyondCapture
    \/ periodicFlush /\ UNCHANGED beyondCapture
    \/ \E t \in Clock : urlPoll(t) /\ UNCHANGED beyondCapture
    \/ \E u \in Urls, t \in Clock : handleUrlChange(u, t) /\ UNCHANGED beyondCapture
    \/ \E u \in Urls : navigate(u) /\ UNCHANGED beyondCapture
    \/ revokeKey /\ UNCHANGED beyondCapture
    \/ \E k \in DOMAIN inflight : upsertOk(k) /\ UNCHANGED beyondCapture
    \/ \E k \in DOMAIN inflight : upsertUnauthorized(k) /\ UNCHANGED beyondCapture
    \/ \E k \in DOMAIN inflight : chunkOk(k) /\ UNCHANGED beyondCapture
    \/ \E k \in DOMAIN inflight : chunkUnauthorized(k) /\ UNCHANGED beyondCapture

PageSpec == Init /\ [][PageNext]_vars

(***************************************************************************)
(* The agent on a page whose DOM changes: the mutation observer, its       *)
(* deferred drain and the 10 s snapshot timer.                             *)
(***************************************************************************)
ObserverNext ==
    \/ \E t \in ObserverClock : start(t) /\ UNCHANGED beyondCapture
    \/ \E t \in ObserverClock : snapshotTimer(t) /\ UNCHANGED beyondCapture
    \/ \E batch \in Batches, t \in ObserverClock : observe(batch, t) /\ UNCHANGED beyondCapture
    \/ \E t \in ObserverClock : drainTimer(t) /\ UNCHANGED beyondCapture

ObserverSpec == Init /\ [][ObserverNext]_vars

(***************************************************************************)
(* The page whose visitor scrolls and types faster than the 5 s interval   *)
(* flushes: the buffer is flushed by recordEvent only, and no response     *)
(* arrives in the meantime.                                                *)
(***************************************************************************)
BufferNext ==
    \/ \E t \in Clock : start(t) /\ UNCHANGED beyondCapture
    \/ handleScroll(now) /\ UNCHANGED beyondCapture
    \/ handleInput(now) /\ UNCHANGED beyondCapture

BufferSpec == Init /\ [][BufferNext]_vars

(***************************************************************************)
(* The session endpoint (createSessionHandler) and the sessions table.     *)
(* A row is                                                                *)
(*   [url, viewport_size, user_agent, screen_resolution, referrer,         *)
(*    start_time, end_time]                                                *)
(* with Null for a column that is null and NoTime for a null time; times   *)
(* are the milliseconds of the ISO strings.  created_at is read by nobody  *)
(* here.  The handler awaits the select and then the insert or update, so  *)
(* the handlers of two requests interleave between the two; a request is   *)
(*   [n, body, stage, existing]                                            *)
(* with stage "sent" before the select and "selected" after it, and        *)
(* existing what the select returned.                                      *)
(***************************************************************************)
Null == "null"

NoTime == 0

Descriptive == {"url", "viewport_size", "user_agent", "screen_resolution",
                "referrer", "start_time"}

\* column f of the row (or field f of the body) has a value
IsSet(row, f) == row[f] # IF f = "start_time" THEN NoTime ELSE Null

\* window.innerWidth x window.innerHeight, which a resize changes
Viewports == {"800x600", "1024x768"}

\* the body saveChunk and saveSession send with the n-th request; the clock
\* has advanced since the request before it
Body(url, viewport_size, n) ==
    [url |-> url, viewport_size |-> viewport_size, user_agent |-> "ua",
     screen_resolution |-> "1920x1080", referrer |-> "ref", start_time |-> 1,
     end_time |-> n + 1]

NotFound == [found |-> FALSE, url |-> Null, viewport_size |-> Null]

\* select("id, url, viewport_size, created_at").eq("id", id).single()
existingSession(table) ==
    IF table = {}
    THEN NotFound
    ELSE LET row == CHOOSE r \in table : TRUE
         IN  [found |-> TRUE, url |-> row.url, viewport_size |-> row.viewport_size]

\* the update of an existing row
update(row, existing, body) ==
    [row EXCEPT !.end_time = body.end_time,
                !.url = IF existing.url # Null THEN @ ELSE body.url,
                !.viewport_size = IF existing.viewport_size # Null THEN @
                                  ELSE body.viewport_size]

\* The insert or update the handler chooses from what its select returned.
\* An insert of an id that is in the table fails (primary key) and an
\* update that matches no row makes .single() fail: both answer 500.
write(table, existing, body) ==
    IF existing.found
    THEN {update(row, existing, body) : row \in table}
    ELSE IF table = {} THEN {body} ELSE table

captureQuiet == <<events, isRecording, currentUrl, listening, snapshotInterval,
                  inflight, lastDomSnapshotTime, observerVars, location, now,
                  keyValid, nextId, faults, accepted, rejected, skipped>>

\* a client sends an upsert-session request (the fetch of saveChunk or
\* saveSession)
postSession(url, viewport_size) ==
    /\ op' = "other"
    /\ posted < MaxPosts
    /\ Cardinality(upserts) < MaxUpserts
    /\ posted' = posted + 1
    /\ upserts' = upserts \cup {[n |-> posted + 1,
                                 body |-> Body(url, viewport_size, posted + 1),
                                 stage |-> "sent", existing |-> NotFound]}
    /\ UNCHANGED <<sessions, chunks, captureQuiet, replayVars, viewVars, pageVars>>

\* createSessionHandler up to the answer of its select; the key is valid
selectSession(q) ==
    /\ op' = "other"
    /\ q.stage = "sent"
    /\ keyValid
    /\ upserts' = (upserts \ {q})
            \cup {[q EXCEPT !.stage = "selected",
                            !.existing = existingSession(sessions)]}
    /\ UNCHANGED <<sessions, posted, chunks, captureQuiet, replayVars, viewVars, pageVars>>

\* createSessionHandler from the answer of its select to its response
writeSession(q) ==
    /\ op' = "upsert"
    /\ q.stage = "selected"
    /\ sessions' = write(sessions, q.existing, q.body)
    /\ upserts' = upserts \ {q}
    /\ UNCHANGED <<posted, chunks, captureQuiet, replayVars, viewVars, pageVars>>

\* The chunk endpoint handles a chunk of one click sent by a client that did
\* not upsert the session first: it creates the row with id and url, then
\* stores the chunk.
submitChunk(url) ==
    /\ op' = "other"
    /\ keyValid
    /\ sessions' =
            IF sessions = {}
            THEN {[url |-> url, viewport_size |-> Null, user_agent |-> Null,
                   screen_resolution |-> Null, referrer |-> Null,
                   start_time |-> NoTime, end_time |-> NoTime]}
            ELSE sessions
    /\ chunks' = POST(chunks, SessionId,
                      <<[id |-> 1, type |-> "click", time |-> 0, url |-> ""]>>)
    /\ UNCHANGED <<upserts, posted, captureQuiet, replayVars, viewVars, pageVars>>

SessionNext ==
    \/ \E url \in Urls, viewport_size \in Viewports : postSession(url, viewport_size)
    \/ \E q \in upserts : selectSession(q)
    \/ \E q \in upserts : writeSession(q)
    \/ \E url \in Urls : submitChunk(url)

SessionSpec == Init /\ [][SessionNext]_vars

(***************************************************************************)
(* The replay page (SessionReplayPage).  A stored event is                 *)
(*   [id, type, time]                                                      *)
(* with time what new Date(..).getTime() reads from its data.timestamp,    *)
(* in units of 25 ms.  The recorder gives every event a data object        *)
(* with a timestamp, every dom_snapshot its html, every mousemove and      *)
(* click its x and y and every session_start its url, so the payload of an *)
(* event is named by its id.                                               *)
(***************************************************************************)
ReplayTypes == {"dom_snapshot", "session_start", "click", "mousemove"}

\* chunksData.flatMap((chunk) => chunk.events || [])
RECURSIVE flatMap(_)
flatMap(cs) == IF cs = <<>> THEN <<>> ELSE cs[1].events \o flatMap(Tail(cs))

\* e goes behind the elements that do not sort after it (a stable sort)
InsertByTime(e, s) ==
    LET n == Cardinality({i \in DOMAIN s : s[i].time <= e.time})
    IN  SubSeq(s, 1, n) \o <<e>> \o SubSeq(s, n + 1, Len(s))

\* A load that keeps the events in arrival order
SortByTime_ArrivalOrder(s) == s

\* .sort((a, b) => timeA - timeB) on data.timestamp
RECURSIVE SortByTime(_)
SortByTime(s) ==
    IF s = <<>>
    THEN <<>>
    ELSE InsertByTime(s[Len(s)], SortByTime(SubSeq(s, 1, Len(s) - 1)))

\* allEvents.map: timestamp becomes the time since the first event
Normalize(allEvents) ==
    LET firstEventTime == allEvents[1].time
    IN  [i \in DOMAIN allEvents |->
            [id |-> allEvents[i].id, type |-> allEvents[i].type,
             time |-> allEvents[i].time,
             timestamp |-> allEvents[i].time - firstEventTime]]

\* events.find((e) => e.type === type): the first event of the type, <<>>
\* standing for undefined
First(s, type) ==
    LET hits == {i \in DOMAIN s : s[i].type = type}
    IN  IF hits = {} THEN <<>>
        ELSE <<s[CHOOSE i \in hits : \A j \in hits : i <= j]>>

\* [...events].reverse().find(..): the last event of one of the types with
\* timestamp <= newTime
Last(s, types, newTime) ==
    LET hits == {i \in DOMAIN s : s[i].type \in types /\ s[i].timestamp <= newTime}
    IN  IF hits = {} THEN <<>>
        ELSE <<s[CHOOSE i \in hits : \A j \in hits : i >= j]>>

\* .filter(..).sort((a, b) => b.timestamp - a.timestamp)[0]: of the events
\* of the type with timestamp <= newTime, the first of those with the
\* greatest timestamp, the sort being stable
Latest(s, type, newTime) ==
    LET hits == {i \in DOMAIN s : s[i].type = type /\ s[i].timestamp <= newTime}
    IN  IF hits = {} THEN <<>>
        ELSE <<s[CHOOSE i \in hits :
                    \A j \in hits : /\ s[i].timestamp >= s[j].timestamp
                                    /\ s[i].timestamp = s[j].timestamp => i <= j]>>

getTotalDuration ==
    IF replayEvents = <<>> THEN 0 ELSE replayEvents[Len(replayEvents)].timestamp

\* A page before its first effect runs.  The session it will show has at
\* most MaxStored events of any types and times, numbered in arrival order,
\* each in a chunk of its own.
ReplayInit ==
    /\ CaptureInit
    /\ \E n \in 0..MaxStored :
        \E type \in [1..n -> ReplayTypes], time \in [1..n -> 0..MaxStamp] :
            chunksData = [i \in 1..n |->
                            [events |-> <<[id |-> i, type |-> type[i], time |-> time[i]]>>]]
    /\ loaded = FALSE
    /\ replayEvents = <<>>
    /\ currentTime = 0
    /\ isPlaying = FALSE
    /\ cursorPosition = 0
    /\ reconstructedDom = 0
    /\ replayUrl = -1
    /\ playbackSpeed = 2
    /\ playFrom = 0
    /\ playLog = <<>>
    /\ ViewIdle
    /\ PageIdle

captureIdle == <<events, isRecording, currentUrl, listening, snapshotInterval,
                 inflight, lastDomSnapshotTime, observerVars, location, now,
                 keyValid, chunks, nextId, faults, accepted, rejected, skipped,
                 sessionVars, viewVars, pageVars>>

\* fetchSessionData, run once by the effect on mount; both requests answer
fetchSessionData ==
    /\ op' = "load"
    /\ ~loaded
    /\ loaded' = TRUE
    /\ replayUrl' = 0
    /\ LET allEvents == SortByTime(flatMap(chunksData))
       IN  IF allEvents = <<>>
           THEN UNCHANGED <<replayEvents, reconstructedDom>>
           ELSE LET normalizedEvents == Normalize(allEvents)
                    initialDomSnapshot ==
                        First(normalizedEvents, "dom_snapshot")
                IN  /\ replayEvents' = normalizedEvents
                    /\ reconstructedDom' =
                            IF initialDomSnapshot # <<>>
                            THEN initialDomSnapshot[1].id
                            ELSE reconstructedDom
    /\ UNCHANGED <<chunksData, currentTime, isPlaying, cursorPosition,
                   playbackSpeed, playFrom, playLog>>
    /\ UNCHANGED captureIdle

\* handleTimelineChange(newTime): the timeline is dragged or clicked
handleTimelineChange(newTime) ==
    /\ op' = "seek"
    /\ loaded
    /\ currentTime' = newTime
    /\ isPlaying' = IF isPlaying /\ newTime >= getTotalDuration THEN FALSE ELSE isPlaying
    /\ LET lastEventBeforeTime ==
                Last(replayEvents, {"mousemove", "click"}, newTime)
           lastDomSnapshot ==
                Latest(replayEvents, "dom_snapshot", newTime)
           lastUrlChange ==
                Latest(replayEvents, "session_start", newTime)
       IN  /\ cursorPosition' =
                IF lastEventBeforeTime # <<>> THEN lastEventBeforeTime[1].id
                ELSE cursorPosition
           /\ reconstructedDom' =
                IF lastDomSnapshot # <<>> THEN lastDomSnapshot[1].id
                ELSE reconstructedDom
           /\ replayUrl' =
                IF lastUrlChange # <<>> THEN lastUrlChange[1].id ELSE replayUrl
    /\ playFrom' = newTime
    /\ playLog' = <<>>
    /\ UNCHANGED <<chunksData, loaded, replayEvents, playbackSpeed>>
    /\ UNCHANGED captureIdle

\* handlePlayPause: at the end handleRestartPlayback (handleResetPlayback,
\* then setIsPlaying(true)), before the end the toggle
handlePlayPause ==
    /\ op' = "play"
    /\ loaded
    /\ IF currentTime >= getTotalDuration
       THEN LET initialSnapshot == First(replayEvents, "dom_snapshot")
            IN  /\ currentTime' = 0
                /\ isPlaying' = TRUE
                /\ reconstructedDom' =
                        IF initialSnapshot # <<>> THEN initialSnapshot[1].id
                        ELSE reconstructedDom
                /\ playFrom' = 0
                /\ playLog' = <<>>
       ELSE /\ isPlaying' = ~isPlaying
            /\ UNCHANGED <<currentTime, reconstructedDom, playFrom, playLog>>
    /\ UNCHANGED <<chunksData, loaded, replayEvents, cursorPosition, replayUrl,
                   playbackSpeed>>
    /\ UNCHANGED captureIdle

\* Speed buttons with one that stops the cursor
Speeds_WithZero == {0, 1, 2, 4, 8}

\* the speed buttons of PlaybackControls: 0.5x, 1x, 2x, 4x
Speeds == {1, 2, 4, 8}

\* setPlaybackSpeed(speed), the onSpeedChange of PlaybackControls
setPlaybackSpeed(speed) ==
    /\ op' = "speed"
    /\ loaded
    /\ playbackSpeed' = speed
    /\ UNCHANGED <<chunksData, loaded, replayEvents, currentTime, isPlaying,
                   cursorPosition, reconstructedDom, replayUrl, playFrom, playLog>>
    /\ UNCHANGED captureIdle

\* A filter that takes the events at prevTime as well
RECURSIVE currentEvents_FromPrevTime(_, _, _)
currentEvents_FromPrevTime(s, prevTime, newTime) ==
    IF s = <<>>
    THEN <<>>
    ELSE (IF s[1].timestamp <= newTime /\ s[1].timestamp >= prevTime
          THEN <<s[1]>> ELSE <<>>)
         \o currentEvents_FromPrevTime(Tail(s), prevTime, newTime)

\* events.filter((e) => e.timestamp <= newTime && e.timestamp > prevTime)
RECURSIVE currentEvents(_, _, _)
currentEvents(s, prevTime, newTime) ==
    IF s = <<>>
    THEN <<>>
    ELSE (IF s[1].timestamp <= newTime /\ s[1].timestamp > prevTime
          THEN <<s[1]>> ELSE <<>>)
         \o currentEvents(Tail(s), prevTime, newTime)

\* what currentEvents.forEach leaves in a state that the events of these
\* types set: the id of the last of them, or the value before
Applied(evs, types, before) ==
    LET hits == {i \in DOMAIN evs : evs[i].type \in types}
    IN  IF hits = {} THEN before
        ELSE evs[CHOOSE i \in hits : \A j \in hits : i >= j].id

\* A check that lets the cursor run past the end
checkPlaybackEnd_NoClamp(nextTime) == nextTime

\* checkPlaybackEnd, as far as its result goes
checkPlaybackEnd(nextTime) ==
    IF nextTime >= getTotalDuration THEN getTotalDuration ELSE nextTime

\* One run of the interval callback of the playback effect, while the
\* interval is set (isPlaying), as far as the cursor, the DOM and the URL
\* go.  One unit of time is 25 ms, so the cursor advances by
\* 50 * playbackSpeed ms = playbackSpeed units.
playback ==
    /\ op' = "tick"
    /\ loaded
    /\ isPlaying
    /\ LET prevTime == currentTime
           nextTime == prevTime + playbackSpeed
           ended == nextTime >= getTotalDuration
           newTime == checkPlaybackEnd(nextTime)
           evs == currentEvents(replayEvents, prevTime, newTime)
       IN  /\ isPlaying' = ~ended
           /\ currentTime' = newTime
           /\ cursorPosition' = Applied(evs, {"mousemove", "click"}, cursorPosition)
           /\ reconstructedDom' = Applied(evs, {"dom_snapshot"}, reconstructedDom)
           /\ replayUrl' = Applied(evs, {"session_start"}, replayUrl)
           /\ playLog' = playLog \o evs
    /\ UNCHANGED <<chunksData, loaded, replayEvents, playbackSpeed, playFrom>>

\* the tick on a page whose click pulse is left out of the picture
tick == playback /\ UNCHANGED captureIdle

ReplayNext ==
    \/ fetchSessionData
    \/ \E newTime \in 0..getTotalDuration : handleTimelineChange(newTime)

ReplaySpec == ReplayInit /\ [][ReplayNext]_vars

\* A page before its first effect runs, for a session of clicks and
\* snapshots: at most MaxPlayed events of any times, numbered in arrival
\* order, each in a chunk of its own.
PlaybackInit ==
    /\ CaptureInit
    /\ \E n \in 0..MaxPlayed :
        \E type \in [1..n -> {"dom_snapshot", "click"}],
           time \in [1..n -> 0..MaxStamp] :
            chunksData = [i \in 1..n |->
                            [events |-> <<[id |-> i, type |-> type[i], time |-> time[i]]>>]]
    /\ loaded = FALSE
    /\ replayEvents = <<>>
    /\ currentTime = 0
    /\ isPlaying = FALSE
    /\ cursorPosition = 0
    /\ reconstructedDom = 0
    /\ replayUrl = -1
    /\ playbackSpeed = 2
    /\ playFrom = 0
    /\ playLog = <<>>
    /\ ViewIdle
    /\ PageIdle

\* the replay page with its playback controls
PlaybackNext ==
    \/ fetchSessionData
    \/ handlePlayPause
    \/ \E speed \in Speeds : setPlaybackSpeed(speed)
    \/ \E newTime \in 0..getTotalDuration : handleTimelineChange(newTime)
    \/ tick

PlaybackSpec == PlaybackInit /\ [][PlaybackNext]_vars

(***************************************************************************)
(* The replay view (ReplayView).  Sizes are whole px; a scale is a         *)
(* fraction [num, den] with den = 0 for Infinity (a width divided by a     *)
(* viewport width of 0), and the arithmetic is exact.                      *)
(***************************************************************************)
\* a <= b for fractions
LessEq(a, b) == a.num * b.den <= b.num * a.den

\* A scale that takes the parent's value whatever the container is
bestScale_Requested(scaleX, scaleY, requested) == requested

\* Math.min(scaleX, scaleY, scale)
bestScale(scaleX, scaleY, requested) ==
    IF LessEq(scaleX, scaleY) /\ LessEq(scaleX, requested) THEN scaleX
    ELSE IF LessEq(scaleY, requested) THEN scaleY
    ELSE requested

\* Math.max(0, Math.floor((containerLength - sessionLength * s) / 2))
Offset(containerLength, sessionLength, s) ==
    LET half == (containerLength * s.den - sessionLength * s.num) \div (2 * s.den)
    IN  IF half > 0 THEN half ELSE 0

\* Math.round(v * computedScale + offset), for v >= 0
Rounded(v, s, offset) == (2 * v * s.num + s.den + 2 * s.den * offset) \div (2 * s.den)

transformCoordinates(x, y) ==
    [x |-> Rounded(x, computedScale, contentPosition.x),
     y |-> Rounded(y, computedScale, contentPosition.y)]

\* the scales the page passes down: Math.min(scaleX, scaleY, 1)
Scales == {[num |-> 1, den |-> 2], [num |-> 2, den |-> 3], [num |-> 1, den |-> 1]}

Sizes(Max) == [width : 1..Max, height : 1..Max]

\* ReplayView mounted in a container that is laid out, for a session with
\* any viewport size, the page's initial 0 x 0 included
TransformInit ==
    /\ CaptureInit
    /\ ReplayIdle
    /\ container \in Sizes(MaxContainer)
    /\ viewportSize \in [width : 0..MaxViewport, height : 0..MaxViewport]
    /\ scale \in Scales
    /\ computedScale = scale
    /\ contentPosition = [x |-> 0, y |-> 0]
    /\ point = [x |-> 0, y |-> 0]
    /\ transformed = [x |-> 0, y |-> 0]
    /\ synced = FALSE
    /\ PageIdle

viewIdle == <<captureVars, replayVars, sessionVars, pageVars>>

\* updateScaleAndPosition, run by the effect and by the ResizeObserver when
\* the container has this size, and the render its two setState calls cause
updateScaleAndPosition(size) ==
    /\ container' = size
    /\ point' = point
    /\ LET scaleX == [num |-> size.width, den |-> viewportSize.width]
           scaleY == [num |-> size.height, den |-> viewportSize.height]
           best == bestScale(scaleX, scaleY, scale)
       IN  /\ computedScale' = best
           /\ contentPosition' =
                [x |-> Offset(size.width, viewportSize.width, best),
                 y |-> Offset(size.height, viewportSize.height, best)]
    /\ transformed' = transformCoordinates(point.x, point.y)'
    /\ synced' = TRUE
    /\ UNCHANGED <<viewportSize, scale>>
    /\ UNCHANGED viewIdle

\* a render with the cursor at (x, y) of the recorded viewport
render(x, y) ==
    /\ point' = [x |-> x, y |-> y]
    /\ transformed' = transformCoordinates(x, y)
    /\ UNCHANGED <<container, viewportSize, scale, computedScale,
                   contentPosition, synced>>
    /\ UNCHANGED viewIdle

TransformNext ==
    \/ \E size \in Sizes(MaxContainer) : updateScaleAndPosition(size)
    \/ \E x \in 0..viewportSize.width, y \in 0..viewportSize.height : render(x, y)

TransformSpec == TransformInit /\ [][TransformNext]_vars

(***************************************************************************)
(* Properties of chunk transport.                                          *)
(***************************************************************************)
\* C1: after any sequence of flushes, transport failures (a response lost
\* after the chunk was stored included) and retries, no recorded event is in
\* more than one stored chunk.
C1_NoEventStoredTwice ==
    \A i, j \in DOMAIN chunks :
        i # j => Ids(chunks[i].events) \cap Ids(chunks[j].events) = {}

\* a stored chunk holds exactly these events
Stored(evs) == \E i \in DOMAIN chunks : chunks[i].events = evs

C3_EveryEventDelivered ==
    \A i \in 1..MaxEvents : (nextId > i) ~> (i \in accepted)

\* C5: when the upsert or the chunk submission of a flush fails (network
\* error, non-2xx other than 401), the events of that chunk are put back at
\* the head of the buffer, in their order, ahead of the events recorded
\* during the attempt, and none is dropped.
C5_FailedChunkBackAtHead ==
    [][op' = "requeue" =>
        \E k \in DOMAIN inflight :
            /\ inflight' = RemoveAt(inflight, k)
            /\ Len(events') = Len(inflight[k].chunk) + Len(events)
            /\ \A i \in DOMAIN inflight[k].chunk : events'[i] = inflight[k].chunk[i]
            /\ \A i \in DOMAIN events : events'[Len(inflight[k].chunk) + i] = events[i]]_vars

\* a failed chunk was just put back ahead of a click recorded while the
\* request was pending
C5_RequeuedAheadOfNewer ==
    /\ op = "requeue"
    /\ Len(events) = 4
    /\ events[3].type = "session_start"
    /\ events[4].type = "click"
    /\ chunks = <<>>

(***************************************************************************)
(* Properties of the agent's life cycle.                                   *)
(***************************************************************************)
\* this step sends a request to the ingestion service: a saveChunk call
\* sends its upsert, or a pending one sends its chunk
SendsRequest ==
    \/ Len(inflight') > Len(inflight)
    \/ /\ Len(inflight') = Len(inflight)
       /\ \E k \in DOMAIN inflight :
            inflight[k].stage = "upsert" /\ inflight'[k].stage = "chunk"

\* C4: once a 401 is received for the upsert or the chunk submission, the
\* recorder sets isRecording to false, does not re-queue that chunk, and
\* from then on no operation sends another request.
C4_RejectionIsFatal ==
    [][/\ (~rejected /\ rejected') => (~isRecording' /\ events' = events)
       /\ (rejected /\ op' # "start") => ~SendsRequest]_vars

\* the events with capture-order number n .. n+k-1 are pending, of these types
Emitted(n, types) ==
    \A i \in DOMAIN types :
        \E k \in DOMAIN inflight' \cup {0} :
            LET s == IF k = 0 THEN events' ELSE inflight'[k].chunk
            IN  \E j \in DOMAIN s : s[j].id = n + i - 1 /\ s[j].type = types[i]

\* C9: stop() on a recording agent appends a session_end and a closing
\* dom_snapshot and halts observation: afterwards nothing appends an event.
C9_StopClosesTheLog ==
    [][/\ (op' = "stop" /\ isRecording) =>
            /\ ~isRecording'
            /\ nextId' = nextId + 2
            /\ Emitted(nextId, <<"session_end", "dom_snapshot">>)
       /\ (~isRecording /\ op' # "start") => nextId' = nextId]_vars

LatestAtOrBefore(types, T) ==
    LET hits == {i \in DOMAIN replayEvents :
                    replayEvents[i].type \in types /\ replayEvents[i].timestamp <= T}
    IN  {replayEvents[i].id :
            i \in {h \in hits : \A j \in hits :
                        replayEvents[h].timestamp >= replayEvents[j].timestamp}}

\* the ids of the session's first snapshot, in timeline order
FirstSnapshot ==
    LET snaps == {i \in DOMAIN replayEvents : replayEvents[i].type = "dom_snapshot"}
    IN  {replayEvents[i].id : i \in {h \in snaps : \A j \in snaps : h <= j}}

\* C6: handleTimelineChange(T) makes the DOM baseline the dom_snapshot with
\* the greatest timestamp <= T, and the session's first snapshot when no
\* snapshot has a timestamp <= T, whatever baseline was shown before.
C6_SeekSelectsBaseline ==
    [][op' = "seek" =>
        LET latest == LatestAtOrBefore({"dom_snapshot"}, currentTime')
        IN  IF latest # {} THEN reconstructedDom' \in latest
            ELSE IF FirstSnapshot # {} THEN reconstructedDom' \in FirstSnapshot
            ELSE reconstructedDom' = 0]_vars

\* C7: handleTimelineChange(T) sets the cursor to the coordinates of the
\* latest mousemove/click at or before T and the URL to that of the latest
\* session_start at or before T, each whatever the DOM baseline and the
\* state shown before the call: with no such event the stream shows what a
\* page that has just loaded shows.
C7_SeekIsLastValueWins ==
    [][op' = "seek" =>
        LET pointer == LatestAtOrBefore({"mousemove", "click"}, currentTime')
            url == LatestAtOrBefore({"session_start"}, currentTime')
        IN  /\ cursorPosition' \in (IF pointer # {} THEN pointer ELSE {0})
            /\ replayUrl' \in (IF url # {} THEN url ELSE {0})]_vars

\* C8: after fetchSessionData, for any list of stored events, the earliest
\* event has relative timestamp 0, every relative timestamp is >= 0, and
\* the events are in the order of their recorded times.
C8_TimestampsNormalized ==
    loaded =>
        /\ Len(replayEvents) = Len(flatMap(chunksData))
        /\ Ids(replayEvents) = Ids(flatMap(chunksData))
        /\ \A i \in DOMAIN replayEvents :
            /\ replayEvents[i].timestamp >= 0
            /\ (\A j \in DOMAIN replayEvents : replayEvents[i].time <= replayEvents[j].time)
                    => replayEvents[i].timestamp = 0
            /\ \A j \in DOMAIN replayEvents :
                /\ i < j => replayEvents[i].time <= replayEvents[j].time
                /\ (replayEvents[i].timestamp <= replayEvents[j].timestamp)
                        <=> (replayEvents[i].time <= replayEvents[j].time)

\* a session whose events arrived out of the order of their times is loaded
C8_LoadedOutOfOrder ==
    /\ op = "load"
    /\ loaded
    /\ Len(replayEvents) = MaxStored
    /\ \E i, j \in DOMAIN chunksData :
            i < j /\ chunksData[i].events[1].time > chunksData[j].events[1].time

(***************************************************************************)
(* Properties of the mutation observer.  No response arrives in            *)
(* ObserverSpec, so every recorded event is in the buffer or in a chunk in *)
(* flight.                                                                 *)
(***************************************************************************)
\* the clock readings of the dom_snapshot events recorded so far
SnapshotTimes ==
    {events[i].time : i \in {j \in DOMAIN events : events[j].type = "dom_snapshot"}}
    \cup UNION {{inflight[k].chunk[i].time :
                    i \in {j \in DOMAIN inflight[k].chunk :
                              inflight[k].chunk[j].type = "dom_snapshot"}} :
                k \in DOMAIN inflight}

\* the handler that has just run recorded a dom_snapshot
SnapshotRecorded ==
    \/ \E i \in DOMAIN events' :
            events'[i].id >= nextId /\ events'[i].type = "dom_snapshot"
    \/ \E k \in DOMAIN inflight' : \E i \in DOMAIN inflight'[k].chunk :
            /\ inflight'[k].chunk[i].id >= nextId
            /\ inflight'[k].chunk[i].type = "dom_snapshot"

\* at clock reading t at least SnapshotQuiet ms have passed since the last
\* dom_snapshot (of any origin) was recorded
QuietSince(t) ==
    /\ SnapshotTimes # {}
    /\ \A u \in SnapshotTimes : t - u >= SnapshotQuiet

\* C11: while recording, when at least 5000 ms have passed since the previous
\* snapshot, a batch delivered to the observer with score exactly 5 gets a
\* dom_snapshot recorded, and a batch with score 4 does not.
C11_SignificanceBoundary ==
    [][\A batch \in Batches, t \in ObserverClock :
        (observe(batch, t) /\ isRecording /\ QuietSince(t)) =>
            /\ significanceScore2(batch) = 2 * SignificanceThreshold
                    => SnapshotRecorded
            /\ significanceScore2(batch) = 2 * (SignificanceThreshold - 1)
                    => ~SnapshotRecorded]_vars

\* C12: the observer callback records a dom_snapshot only for a batch with
\* score >= 5 and only when at least 5000 ms have passed since the previous
\* dom_snapshot of any origin, the one taken by start() included.
C12_SnapshotOnlyAfterQuiet ==
    [][\A batch \in Batches, t \in ObserverClock :
        (observe(batch, t) /\ SnapshotRecorded) =>
            /\ significanceScore2(batch) >= 2 * SignificanceThreshold
            /\ QuietSince(t)]_vars

(***************************************************************************)
(* Properties of the buffer.                                               *)
(***************************************************************************)
\* C13: recordEvent starts a flush as soon as the buffer reaches 10 events:
\* after any recordEvent call, with no failed chunk put back, the buffer
\* holds fewer than 10 events.
C13_BufferBelowLimit == Len(events) < BufferLimit

(***************************************************************************)
(* Properties of the session endpoint.                                     *)
(***************************************************************************)
\* the row of the session
SessionRow == CHOOSE row \in sessions : TRUE

\* C14: once the row exists, no upsert-session call changes a descriptive
\* field (url, viewport_size, user_agent, screen_resolution, referrer,
\* start_time) that has a value.
C14_FirstWriteWins ==
    [][(op' = "upsert" /\ sessions # {}) =>
        \A f \in Descriptive :
            IsSet(SessionRow, f) => SessionRow'[f] = SessionRow[f]]_vars

\* C15: the stored end_time never decreases, whatever the order in which
\* the upserts of one session reach the endpoint.
C15_EndTimeMonotonic ==
    [][sessions # {} => SessionRow'.end_time >= SessionRow.end_time]_vars

\* C16: an upsert-session call on a row with unset descriptive fields stores
\* every such field its body carries.
C16_UpsertFillsUnset ==
    [][\A q \in upserts :
        (writeSession(q) /\ q.existing.found /\ sessions # {}) =>
            \A f \in Descriptive :
                (~IsSet(SessionRow, f) /\ IsSet(q.body, f))
                    => SessionRow'[f] = q.body[f]]_vars

(***************************************************************************)
(* Properties of the playback.                                             *)
(***************************************************************************)
\* the playback has ended: the cursor is at the total duration, not playing
Ended == loaded /\ ~isPlaying /\ currentTime >= getTotalDuration

\* C17: Ended is left only by a restart (the play button at the end), which
\* resets the cursor to 0 and starts playing, and Ended is entered only from
\* Playing; no play/pause, tick, speed change or scrub does anything else.
C17_PlaybackStateMachine ==
    [][loaded =>
        /\ (Ended /\ ~Ended') => (op' = "play" /\ isPlaying' /\ currentTime' = 0)
        /\ (~Ended /\ Ended') => isPlaying]_vars

\* the ids of the loaded events with timestamp in (from, to]
Within(from, to) ==
    {replayEvents[i].id :
        i \in {j \in DOMAIN replayEvents :
                /\ replayEvents[j].timestamp > from
                /\ replayEvents[j].timestamp <= to}}

\* C18: a tick applies exactly the events with timestamp in (previous
\* cursor, new cursor], in ascending timestamp order; over the consecutive
\* ticks of one playback, across speed changes and pause/resume, no event is
\* applied twice and none in the covered interval is skipped.
C18_TickDispatch ==
    [][op' = "tick" =>
        LET evs == SubSeq(playLog', Len(playLog) + 1, Len(playLog'))
        IN  /\ SubSeq(playLog', 1, Len(playLog)) = playLog
            /\ Ids(evs) = Within(currentTime, currentTime')
            /\ \A i, j \in DOMAIN evs :
                    i < j => evs[i].timestamp <= evs[j].timestamp
            /\ \A i, j \in DOMAIN playLog' :
                    i # j => playLog'[i].id # playLog'[j].id
            /\ Ids(playLog') = Within(playFrom, currentTime')]_vars

\* a playback from 0 reached the end in ticks of 0.5x after a speed change,
\* applying events of different timestamps
C18_PlayedThrough ==
    /\ op = "tick"
    /\ playFrom = 0
    /\ playbackSpeed = 1
    /\ ~isPlaying
    /\ currentTime = getTotalDuration
    /\ Len(playLog) >= 2
    /\ playLog[1].timestamp < playLog[Len(playLog)].timestamp

InFlight == UNION {Ids(inflight[k].chunk) : k \in DOMAIN inflight}

\* the number of places (positions of the buffer and of the chunks in
\* flight) that hold the event with this id
Copies(id) ==
    Cardinality({i \in DOMAIN events : events[i].id = id})
    + Cardinality(UNION {{<<k, i>> : i \in {j \in DOMAIN inflight[k].chunk :
                                                inflight[k].chunk[j].id = id}} :
                         k \in DOMAIN inflight})

\* C20: every recorded event that was neither acknowledged nor rejected with
\* its chunk (401) is in exactly one place, the buffer or one chunk in
\* flight, never in two; a handler that records events leaves the chunks in
\* flight as they are, so what is recorded during a flush is in the buffer
\* (or in the chunk of a new flush).
C20_AtomicSwap ==
    [][/\ \A id \in 1..(nextId' - 1) : Copies(id)' <= 1
       /\ \A id \in (Ids(events) \cup InFlight) \cup (nextId..(nextId' - 1)) :
            \/ Copies(id)' = 1
            \/ id \in accepted'
            \/ /\ ~keyValid
               /\ ~isRecording'
               /\ rejected'
               /\ Len(inflight') = Len(inflight) - 1
       /\ nextId' > nextId =>
            \A k \in DOMAIN inflight :
                k \in DOMAIN inflight' /\ inflight'[k] = inflight[k]]_vars

\* a click recorded while the flush of start() is in flight is in the buffer
C20_RecordedDuringFlush ==
    /\ Len(inflight) = 1
    /\ Len(inflight[1].chunk) = 3
    /\ Len(events) = 1
    /\ events[1].type = "click"
    /\ events[1].id = 4

(***************************************************************************)
(* Chunk transport over a link that fails any number of times: every       *)
(* failed call of saveChunk runs its catch block, whichever request failed.*)
(***************************************************************************)
saveChunkCatch(k) ==
    /\ op' = "requeue"
    /\ events' = Requeue(inflight[k].chunk, events)
    /\ inflight' = RemoveAt(inflight, k)
    /\ UNCHANGED <<isRecording, rejected, faults>>
    /\ UNCHANGED serverVars
    /\ UNCHANGED recorderIdle

RetryNext ==
    \/ \E t \in Clock : start(t) /\ UNCHANGED beyondCapture
    \/ \E t \in Clock : handleClick(t) /\ UNCHANGED beyondCapture
    \/ periodicFlush /\ UNCHANGED beyondCapture
    \/ \E k \in DOMAIN inflight : upsertOk(k) /\ UNCHANGED beyondCapture
    \/ \E k \in DOMAIN inflight : chunkOk(k) /\ UNCHANGED beyondCapture
    \/ \E k \in DOMAIN inflight : saveChunkCatch(k) /\ UNCHANGED beyondCapture

RetrySpec == Init /\ [][RetryNext]_vars

\* recordEvent numbers the events as it appends them, so a sequence of
\* events is in capture order when its ids increase
RECURSIVE InCaptureOrder(_)
InCaptureOrder(s) ==
    \/ Len(s) < 2
    \/ s[1].id < s[2].id /\ InCaptureOrder(Tail(s))

\* C21: the events of every chunk in flight are in capture order, also
\* when the chunk holds re-queued events and several flushes failed in any
\* order.
C21_ChunksInCaptureOrder ==
    \A k \in DOMAIN inflight : InCaptureOrder(inflight[k].chunk)

(***************************************************************************)
(* Element identity: getOrCreateElementId on an element of the recorded    *)
(* page whose class and place among its siblings change.  Strings are      *)
(* sequences of one-character strings.                                     *)
(***************************************************************************)
MaxCalls == 3
MaxSiblings == 2
MaxClass == 2

\* the UTF-16 code units of the characters an XPath of the model holds
charCodeAt(c) ==
    CASE c = "/" -> 47 [] c = "[" -> 91 [] c = "]" -> 93
      [] c = "1" -> 49 [] c = "2" -> 50 [] c = "3" -> 51 [] c = "4" -> 52
      [] c = "a" -> 97 [] c = "b" -> 98 [] c = "c" -> 99 [] c = "d" -> 100
      [] c = "h" -> 104 [] c = "i" -> 105 [] c = "l" -> 108 [] c = "m" -> 109
      [] c = "n" -> 110 [] c = "o" -> 111 [] c = "s" -> 115 [] c = "t" -> 116
      [] c = "v" -> 118 [] c = "y" -> 121

toLowerCase(tagName) ==
    CASE tagName = "DIV" -> <<"d", "i", "v">>
      [] tagName = "CANVAS" -> <<"c", "a", "n", "v", "a", "s">>

Digit(n) == CASE n = 1 -> "1" [] n = 2 -> "2" [] n = 3 -> "3" [] n = 4 -> "4"

\* getXPath of an element without id whose parent is document.body
getXPath(el) ==
    <<"/", "h", "t", "m", "l", "/", "b", "o", "d", "y">>
    \o <<"/">> \o toLowerCase(el.tagName) \o <<"[", Digit(el.ix), "]">>

\* a 32-bit integer as its two 16-bit halves
Half == 65536

\* hash = (hash << 5) - hash + code; hash |= 0, over the characters of str
RECURSIVE hashLoop(_, _)
hashLoop(hash, str) ==
    IF str = <<>> THEN hash
    ELSE LET lo == 31 * hash.lo + charCodeAt(Head(str))
             hi == 31 * hash.hi + lo \div Half
         IN  hashLoop([hi |-> hi % Half, lo |-> lo % Half], Tail(str))

\* Math.abs of the signed 32-bit integer with these halves
abs(hash) ==
    IF hash.hi < Half \div 2 THEN hash
    ELSE IF hash.lo = 0 THEN [hi |-> Half - hash.hi, lo |-> 0]
    ELSE [hi |-> Half - 1 - hash.hi, lo |-> Half - hash.lo]

\* Number.prototype.toString(36): the base-36 digits, most significant first
RECURSIVE toString36(_)
toString36(n) ==
    LET rest == (n.hi % 36) * Half + n.lo
        q == [hi |-> n.hi \div 36, lo |-> rest \div 36]
    IN  IF q.hi = 0 /\ q.lo = 0 THEN <<rest % 36>>
        ELSE toString36(q) \o <<rest % 36>>

hashString(str) == toString36(abs(hashLoop([hi |-> 0, lo |-> 0], str)))

\* className.replace(/\s+/g, "-"): every run of white space becomes one "-"
RECURSIVE replaceSpaces(_)
replaceSpaces(className) ==
    IF className = <<>> THEN <<>>
    ELSE IF Head(className) # " " THEN <<Head(className)>> \o replaceSpaces(Tail(className))
    ELSE IF Len(className) > 1 /\ className[2] = " " THEN replaceSpaces(Tail(className))
    ELSE <<"-">> \o replaceSpaces(Tail(className))

\* the three parts of `${tag}-${class}-${hash}`
domIdOf(el) ==
    [tag |-> toLowerCase(el.tagName),
     className |-> replaceSpaces(el.className),
     hash |-> hashString(getXPath(el))]

\* the class names of the model: up to MaxClass characters, letters and blanks
ClassNames == UNION {[1..n -> {"a", " "}] : n \in 0..MaxClass}

getOrCreateElementId ==
    /\ calls < MaxCalls
    /\ element.id = ""
    /\ LET domId == domIdOf(element)
       IN  /\ element' = IF element.marked THEN element
                         ELSE [element EXCEPT !.marked = TRUE, !.marker = domId]
           /\ lastId' = domId
           /\ firstId' = IF calls = 0 THEN domId ELSE firstId
    /\ calls' = calls + 1

\* a script of the page sets element.className
setClassName(className) ==
    /\ className # element.className
    /\ element' = [element EXCEPT !.className = className]
    /\ UNCHANGED <<firstId, lastId, calls>>

\* the element or a sibling with its tag is inserted, removed or moved, so
\* the element becomes the ix-th of its kind
moveElement(ix) ==
    /\ ix # element.ix
    /\ element' = [element EXCEPT !.ix = ix]
    /\ UNCHANGED <<firstId, lastId, calls>>

elementIdle == <<captureVars, replayVars, sessionVars, viewVars, canvasVars, tracker,
                 lastMouseMoveTime, clickEffect, submissions,
                 credential,
                 gesture,
                 limiter,
                 window>>

ElementNext ==
    \/ getOrCreateElementId /\ UNCHANGED elementIdle
    \/ \E className \in ClassNames : setClassName(className) /\ UNCHANGED elementIdle
    \/ \E ix \in 1..MaxSiblings : moveElement(ix) /\ UNCHANGED elementIdle

ElementInit ==
    /\ CaptureInit
    /\ ReplayIdle
    /\ ViewIdle
    /\ ElementIdle
    /\ CanvasAbsent
    /\ TrackerAbsent
    /\ PointerIdle
    /\ PulseIdle
    /\ SubmitIdle
    /\ CredentialIdle
    /\ GestureIdle
    /\ LimiterIdle
    /\ WindowIdle

ElementSpec == ElementInit /\ [][ElementNext]_vars

\* C22: every call of getOrCreateElementId on the element returns the
\* domId the first call returned, which is the marker on the element.
C22_ElementIdStable ==
    calls > 0 => lastId = firstId /\ firstId = element.marker /\ element.marked

(***************************************************************************)
(* Canvas capture and restoration: the element is a canvas of the recorded *)
(* page, captureFullDomSnapshot records it and DomRenderer restores it     *)
(* when the snapshot is adopted as baseline.                               *)
(***************************************************************************)
MaxPictures == 2
MaxCanvas == 2

NaturalIds == {"", "chart"}

\* what getOrCreateElementId returns: element.id when there is one, else
\* the domId it builds
ElementId(el) ==
    IF el.id # "" THEN [natural |-> el.id, synthetic |-> NoId]
    ELSE [natural |-> "", synthetic |-> domIdOf(el)]

\* the marker written by the first call on an element without id
Marked(el) ==
    IF el.id # "" \/ el.marked THEN el
    ELSE [el EXCEPT !.marked = TRUE, !.marker = domIdOf(el)]

\* the attributes of the canvas as outerHTML serialises them
outerHTML(el, s) ==
    [id |-> el.id, marked |-> el.marked, marker |-> el.marker,
     width |-> s.width, height |-> s.height]

\* canvas.toDataURL("image/png", 1.0) inside its try block: the pixels,
\* or null when the call throws
toDataURL(s) ==
    IF s.tainted THEN NoUrl ELSE [set |-> TRUE, pixels |-> s.bitmap]

\* the entry processCanvasElement pushes
processCanvasElement(el, s) ==
    [domId |-> ElementId(el), id |-> el.id, dataUrl |-> toDataURL(s),
     width |-> s.width, height |-> s.height]

CanvasInit ==
    /\ CaptureInit
    /\ ReplayIdle
    /\ ViewIdle
    /\ \E id \in NaturalIds :
         element = [tagName |-> "CANVAS", id |-> id, className |-> <<>>,
                    ix |-> 1, marked |-> FALSE, marker |-> NoId]
    /\ firstId = NoId
    /\ lastId = NoId
    /\ calls = 0
    /\ CanvasIdle
    /\ TrackerAbsent
    /\ PointerIdle
    /\ PulseIdle
    /\ SubmitIdle
    /\ CredentialIdle
    /\ GestureIdle
    /\ LimiterIdle
    /\ WindowIdle

\* the page draws picture b on the canvas
draw(b) ==
    /\ surface' = [surface EXCEPT !.bitmap = b]
    /\ UNCHANGED <<element, snapshot, replayed>>

\* the page sets the size of the canvas, which clears it
resize(w, h) ==
    /\ <<w, h>> # <<surface.width, surface.height>>
    /\ surface' = [surface EXCEPT !.width = w, !.height = h, !.bitmap = 0]
    /\ UNCHANGED <<element, snapshot, replayed>>

\* the page draws a cross-origin image: the canvas is tainted from then on
taint ==
    /\ ~surface.tainted
    /\ surface' = [surface EXCEPT !.tainted = TRUE]
    /\ UNCHANGED <<element, snapshot, replayed>>

\* captureFullDomSnapshot, as far as the canvas goes: the markup is
\* serialised first, then processCanvasElement runs
captureCanvas ==
    /\ snapshot' = [taken |-> TRUE,
                    html |-> outerHTML(element, surface),
                    canvasElements |-> <<processCanvasElement(element, surface)>>]
    /\ element' = Marked(element)
    /\ UNCHANGED <<surface, replayed>>

\* canvas.getAttribute("data-hotclone-id") and canvasSnapshots.find(...):
\* the positions of the entries the canvas of the markup matches
Found(html, canvasElements) ==
    {i \in DOMAIN canvasElements :
        /\ html.marked
        /\ \/ canvasElements[i].domId = [natural |-> "", synthetic |-> html.marker]
           \/ /\ canvasElements[i].id # ""
              /\ [natural |-> canvasElements[i].id, synthetic |-> NoId]
                   = [natural |-> "", synthetic |-> html.marker]}

\* the snapshot is adopted as baseline: DomRenderer applies data.html and
\* its effect restores the canvases; img.onload included
adopt ==
    /\ snapshot.taken
    /\ LET found == Found(snapshot.html, snapshot.canvasElements)
           hit == IF found = {} THEN 0 ELSE CHOOSE i \in found : \A j \in found : i <= j
           redraw == hit # 0 /\ snapshot.canvasElements[hit].dataUrl.set
       IN  replayed' =
             [adopted |-> TRUE,
              canvas |-> IF redraw
                         THEN [snapshot.html EXCEPT
                                 !.width = snapshot.canvasElements[hit].width,
                                 !.height = snapshot.canvasElements[hit].height]
                         ELSE snapshot.html,
              bitmap |-> IF redraw THEN snapshot.canvasElements[hit].dataUrl.pixels
                         ELSE 0,
              redrawn |-> redraw]
    /\ UNCHANGED <<element, surface, snapshot>>

canvasIdle == <<captureVars, replayVars, sessionVars, viewVars, firstId, lastId, calls,
                tracker, lastMouseMoveTime, clickEffect, submissions,
                 credential,
                 gesture,
                 limiter,
                 window>>

CanvasNext ==
    \/ \E b \in 1..MaxPictures : draw(b) /\ UNCHANGED canvasIdle
    \/ \E w, h \in 1..MaxCanvas : resize(w, h) /\ UNCHANGED canvasIdle
    \/ taint /\ UNCHANGED canvasIdle
    \/ captureCanvas /\ UNCHANGED canvasIdle
    \/ adopt /\ UNCHANGED canvasIdle

CanvasSpec == CanvasInit /\ [][CanvasNext]_vars

\* C23: when a snapshot is adopted as baseline, every canvas it records
\* with a non-null bitmap is resized to the recorded width and height and
\* redrawn from that bitmap in the replayed tree.
C23_CanvasRestored ==
    [][adopt =>
        \A i \in DOMAIN snapshot.canvasElements :
            snapshot.canvasElements[i].dataUrl.set =>
                /\ replayed'.redrawn
                /\ replayed'.canvas.width = snapshot.canvasElements[i].width
                /\ replayed'.canvas.height = snapshot.canvasElements[i].height
                /\ replayed'.bitmap = snapshot.canvasElements[i].dataUrl.pixels]_vars

\* the session_start events with this url that are in a chunk in flight
Boundaries(flights, url) ==
    {<<k, i>> \in UNION {{k} \X DOMAIN flights[k].chunk : k \in DOMAIN flights} :
        /\ flights[k].chunk[i].type = "session_start"
        /\ flights[k].chunk[i].url = url}

\* C24: while recording, a run of the poll or of a history hook that finds
\* the URL changed appends exactly one session_start carrying the new URL
\* and flushes in the same step, the new event being the last of the chunk
\* sent; it leaves currentUrl at the new URL, and a run that finds the URL
\* as currentUrl has it (the change was emitted already) records nothing
\* and sends nothing.  The handler's clock reading is the step's now' and
\* the URL it reads is the step's location'.
C24_NavigationBoundary ==
    [][LET t == now'
           u == location'
       IN  isRecording /\ (urlPoll(t) \/ handleUrlChange(u, t)) =>
            IF currentUrl # location'
            THEN /\ nextId' = nextId + 1
                 /\ events' = <<>>
                 /\ Len(inflight') = Len(inflight) + 1
                 /\ inflight'[Len(inflight')].chunk[Len(inflight'[Len(inflight')].chunk)]
                      = [id |-> nextId, type |-> "session_start", time |-> t,
                         url |-> location']
                 /\ currentUrl' = location'
            ELSE /\ nextId' = nextId
                 /\ events' = events
                 /\ inflight' = inflight]_vars

\* the page went from /a to /b while recording and the boundary is in a
\* chunk in flight
C24_BoundarySent ==
    /\ isRecording
    /\ currentUrl = "/b"
    /\ location = "/b"
    /\ Boundaries(inflight, "/b") # {}

(***************************************************************************)
(* Canvas tracking: the wrappers setupCanvasTracking puts around the       *)
(* drawing methods of a 2d context, and the timer they start.  The page is *)
(* recording; time is in ms and passes in steps of Pace.                   *)
(***************************************************************************)
MaxDraw == 400
Pace == 50
CanvasDelay == 100

NoTimeout == [set |-> FALSE, due |-> 0]

TrackerInit ==
    /\ CaptureInit
    /\ ReplayIdle
    /\ ViewIdle
    /\ ElementAbsent
    /\ CanvasAbsent
    /\ PointerIdle
    /\ PulseIdle
    /\ SubmitIdle
    /\ CredentialIdle
    /\ GestureIdle
    /\ LimiterIdle
    /\ WindowIdle
    /\ tracker = [time |-> 0, canvasSnapshotTimeout |-> NoTimeout,
                  lastCanvasOperation |-> 0, captured |-> <<>>]

\* a wrapped drawing method runs: ctx[method] = (...args) => {...}
canvasOperation ==
    tracker' = [tracker EXCEPT
                  !.lastCanvasOperation = tracker.time,
                  !.canvasSnapshotTimeout =
                      IF ~@.set THEN [set |-> TRUE, due |-> tracker.time + CanvasDelay]
                      ELSE @]

\* the callback of the timer: captureFullDomSnapshot(), then the handle is
\* cleared
canvasTimer ==
    /\ tracker.canvasSnapshotTimeout.set
    /\ tracker.time >= tracker.canvasSnapshotTimeout.due
    /\ tracker' = [tracker EXCEPT !.captured = Append(@, tracker.time),
                                  !.canvasSnapshotTimeout = NoTimeout]

\* time passes; a timer that is due fires before more time passes
pass ==
    /\ tracker.time + Pace <= MaxDraw
    /\ tracker.canvasSnapshotTimeout.set =>
         tracker.time < tracker.canvasSnapshotTimeout.due
    /\ tracker' = [tracker EXCEPT !.time = @ + Pace]

trackerIdle == <<captureVars, replayVars, sessionVars, viewVars, elementVars,
                 canvasVars, lastMouseMoveTime, clickEffect, submissions,
                 credential,
                 gesture,
                 limiter,
                 window>>

TrackerNext ==
    \/ canvasOperation /\ UNCHANGED trackerIdle
    \/ canvasTimer /\ UNCHANGED trackerIdle
    \/ pass /\ UNCHANGED trackerIdle

TrackerSpec == TrackerInit /\ [][TrackerNext]_vars

\* C25: a capture of the timer is taken CanvasDelay ms after the last
\* drawing operation, never while operations arrive less than CanvasDelay
\* apart.
C25_CaptureAfterLastOperation ==
    [][canvasTimer =>
         tracker.time = tracker.lastCanvasOperation + CanvasDelay]_vars

(***************************************************************************)
(* The drain of the mutation queue on a page whose DOM changes one record  *)
(* at a time, with a clock that reads both sides of the 500 ms window.     *)
(***************************************************************************)
MaxDrain == 1000

\* Date.now() as a handler reads it: in the millisecond of the handler
\* before it, or just inside or just at the end of the window
DrainClock ==
    {t \in {now + d : d \in {0, domSnapshotThrottle - 1, domSnapshotThrottle}} :
        t <= MaxDrain}

\* the callbacks with one MutationRecord
Single == {b \in Batches : Length(b) = 1}

DrainNext ==
    \/ \E t \in DrainClock : start(t) /\ UNCHANGED beyondCapture
    \/ \E batch \in Single, t \in DrainClock : observe(batch, t) /\ UNCHANGED beyondCapture
    \/ \E t \in DrainClock : drainTimer(t) /\ UNCHANGED beyondCapture

DrainSpec == Init /\ [][DrainNext]_vars

\* the observer's callback ran last and its processMutationQueue took the
\* queue (the callback pushes at least one record)
Drained == op = "observe" /\ pendingMutations = NoRecords

\* C26: two drains of the pending-mutation queue are at least 500 ms apart:
\* when the last handler drained the queue, a handler that drains it again
\* (the observer's callback, or the timer of a deferred drain) runs
\* domSnapshotThrottle ms later or more.
C26_DrainsThrottled ==
    [][(/\ Drained
        /\ pendingMutations' = NoRecords
        /\ op' = "observe" \/ (drainDue # 0 /\ drainDue' = 0))
         => now' - now >= domSnapshotThrottle]_vars

(***************************************************************************)
(* Pointer sampling: handleMouseMove and handleDrag, which share           *)
(* this.lastMouseMoveTime, on a page whose requests are not answered       *)
(* meanwhile.                                                              *)
(***************************************************************************)
MaxMoves == 3
MaxPointer == 300
mouseMoveThrottle == 100
dragThrottle == 150

\* a test that lets every input event through
throttled_Never(last, t, throttle) == FALSE

\* if (now - this.lastMouseMoveTime < throttle) return;
throttled(last, t, throttle) == DateNow(t) - last < throttle

\* the bounds of the page whose pointer moves
PointerWithin(r) ==
    /\ r.nextId <= MaxEvents + MaxMoves
    /\ Len(r.inflight) <= MaxInflight

\* the handler of a pointer input event of this type, with this throttle
sample(type, throttle, t) ==
    /\ op' = "other"
    /\ listening
    /\ IF throttled(lastMouseMoveTime, t, throttle)
       THEN UNCHANGED <<events, isRecording, inflight, nextId, lastDomSnapshotTime,
                        lastMouseMoveTime>>
       ELSE /\ lastMouseMoveTime' = DateNow(t)
            /\ LET r1 == recordEvent(Rec, type, "", t)
               IN  PointerWithin(r1) /\ Commit(r1)
    /\ now' = t
    /\ UNCHANGED <<currentUrl, listening, snapshotInterval, location, faults,
                   rejected>>
    /\ UNCHANGED observerVars
    /\ UNCHANGED serverVars

handleMouseMove(t) == sample("mousemove", mouseMoveThrottle, t)

handleDrag(t) == sample("drag", dragThrottle, t)

\* Date.now() as a handler reads it: in the millisecond of the handler
\* before it, or just inside or just at the end of one of the two windows
PointerClock ==
    {t \in {now + d : d \in {0, mouseMoveThrottle - 1, mouseMoveThrottle,
                             dragThrottle - 1, dragThrottle}} :
        t <= MaxPointer}

pointerIdle == <<replayVars, sessionVars, viewVars, elementVars, canvasVars, tracker,
                 clickEffect, submissions,
                 credential,
                 gesture,
                 limiter,
                 window>>

PointerNext ==
    \/ \E t \in PointerClock : start(t) /\ UNCHANGED beyondCapture
    \/ \E t \in PointerClock : handleMouseMove(t) /\ UNCHANGED pointerIdle
    \/ \E t \in PointerClock : handleDrag(t) /\ UNCHANGED pointerIdle

PointerSpec == Init /\ [][PointerNext]_vars

\* the events of the chunks in flight, one chunk after the other
RECURSIVE Flown(_)
Flown(flights) ==
    IF flights = <<>> THEN <<>>
    ELSE Head(flights).chunk \o Flown(Tail(flights))

\* the recorded events of this type: no request is answered in PointerSpec,
\* so they are in a chunk in flight or in the buffer
Recorded(type) ==
    LET all == Flown(inflight) \o events
    IN  {all[i] : i \in {j \in DOMAIN all : all[j].type = type}}

\* two events recorded at least this many ms apart
Apart(a, b, ms) == a.time - b.time >= ms \/ b.time - a.time >= ms

\* C27: any two recorded mousemove events are at least 100 ms apart and any
\* two recorded drag events at least 150 ms, whatever the interleaving of
\* mousemove and drag input events.
C27_SamplingThrottles ==
    /\ \A a, b \in Recorded("mousemove") :
         a.id # b.id => Apart(a, b, mouseMoveThrottle)
    /\ \A a, b \in Recorded("drag") :
         a.id # b.id => Apart(a, b, dragThrottle)

\* a drag was recorded between two recorded mousemove events
C27_Interleaved ==
    \E a, b \in Recorded("mousemove"), c \in Recorded("drag") :
        a.id < c.id /\ c.id < b.id

(***************************************************************************)
(* The click pulse of the replay page: the tick shows it for every click   *)
(* it applies and starts a 500 ms timeout that hides it.  The session has  *)
(* a snapshot at 0, two clicks and a last event; one unit of session time  *)
(* is 25 ms and one period of real time is the 50 ms of the interval.      *)
(***************************************************************************)
MaxTimers == 2
MaxSession == 36
PulseWindow == 20
PulsePeriods == 10

\* the times of the two clicks, less than the window apart
ClickTimes == {<<4, 12>>}

PulseInit ==
    /\ CaptureInit
    /\ \E c \in ClickTimes :
        chunksData = <<[events |-> <<[id |-> 1, type |-> "dom_snapshot", time |-> 0],
                                     [id |-> 2, type |-> "click", time |-> c[1]]>>],
                       [events |-> <<[id |-> 3, type |-> "click", time |-> c[2]],
                                     [id |-> 4, type |-> "dom_snapshot",
                                      time |-> MaxSession]>>]>>
    /\ loaded = FALSE
    /\ replayEvents = <<>>
    /\ currentTime = 0
    /\ isPlaying = FALSE
    /\ cursorPosition = 0
    /\ reconstructedDom = 0
    /\ replayUrl = -1
    /\ playbackSpeed = 2
    /\ playFrom = 0
    /\ playLog = <<>>
    /\ ViewIdle
    /\ PageIdle

\* one 50 ms period of real time passes over the pending timeouts
RECURSIVE Aged(_)
Aged(timers) ==
    IF timers = <<>> THEN <<>> ELSE <<Head(timers) - 1>> \o Aged(Tail(timers))

\* a timeout is due
Due(timers) == \E i \in DOMAIN timers : timers[i] = 0

\* setClickEffect({..., show: true}) and setTimeout(..., 500) for every
\* click among the events the tick applies
RECURSIVE Pulsed(_, _)
Pulsed(effect, evs) ==
    IF evs = <<>> THEN effect
    ELSE Pulsed(IF Head(evs).type = "click"
                THEN [show |-> TRUE, timers |-> Append(effect.timers, PulsePeriods)]
                ELSE effect,
                Tail(evs))

pulseIdle == <<events, isRecording, currentUrl, listening, snapshotInterval,
               inflight, lastDomSnapshotTime, observerVars, location, now,
               keyValid, chunks, nextId, faults, accepted, rejected, skipped,
               sessionVars, viewVars, elementVars, canvasVars, tracker,
               lastMouseMoveTime, submissions,
                 credential,
                 gesture,
                 limiter,
                 window>>

\* the interval callback, 50 ms after the one before it
pulseTick ==
    /\ ~Due(clickEffect.timers)
    /\ playback
    /\ LET effect == Pulsed([clickEffect EXCEPT !.timers = Aged(@)],
                            currentEvents(replayEvents, currentTime, currentTime'))
       IN  /\ Len(effect.timers) <= MaxTimers
           /\ clickEffect' = effect
    /\ UNCHANGED pulseIdle

\* 50 ms pass while the interval is cleared (paused)
wait ==
    /\ op' = "other"
    /\ ~isPlaying
    /\ clickEffect.timers # <<>>
    /\ ~Due(clickEffect.timers)
    /\ clickEffect' = [clickEffect EXCEPT !.timers = Aged(@)]
    /\ UNCHANGED replayVars
    /\ UNCHANGED pulseIdle

\* the callback of a timeout: setClickEffect((prev) => ({...prev, show: false}))
hidePulse ==
    /\ op' = "other"
    /\ \E i \in DOMAIN clickEffect.timers :
        /\ clickEffect.timers[i] = 0
        /\ clickEffect' = [show |-> FALSE, timers |-> RemoveAt(clickEffect.timers, i)]
    /\ UNCHANGED replayVars
    /\ UNCHANGED pulseIdle

\* the positions of the timeline the visitor clicks
SeekTimes == {t \in 0..MaxSession : t % 12 = 0}

PulseNext ==
    \/ fetchSessionData
    \/ handlePlayPause
    \/ \E speed \in Speeds : setPlaybackSpeed(speed)
    \/ \E newTime \in SeekTimes : handleTimelineChange(newTime)
    \/ pulseTick
    \/ wait
    \/ hidePulse

PulseSpec == PulseInit /\ [][PulseNext]_vars

\* C28: at replay time T the click pulse is shown exactly when some click
\* has a timestamp c with c <= T < c + 500 ms, at every speed, after a seek
\* and for clicks less than 500 ms apart (read when no timeout is due).
C28_ClickPulse ==
    loaded /\ ~Due(clickEffect.timers) =>
        (clickEffect.show <=>
            \E i \in DOMAIN replayEvents :
                /\ replayEvents[i].type = "click"
                /\ replayEvents[i].timestamp <= currentTime
                /\ currentTime < replayEvents[i].timestamp + PulseWindow)

\* C29: while playing, a tick advances the cursor by 50 ms x the speed
\* multiplier (playbackSpeed units of 25 ms), clamped to the total duration,
\* and after every step (the cursor starts at 0) the cursor is between 0 and
\* the total duration; a change of the multiplier leaves the cursor, the
\* playing flag and what is shown as they are, and the next tick advances by
\* the new multiplier.
C29_TickModel ==
    [][/\ 0 <= currentTime'
       /\ currentTime' <= getTotalDuration'
       /\ op' = "tick" =>
            /\ isPlaying
            /\ currentTime' = IF currentTime + playbackSpeed >= getTotalDuration
                              THEN getTotalDuration
                              ELSE currentTime + playbackSpeed
            /\ playbackSpeed' = playbackSpeed
       /\ op' = "speed" =>
            /\ currentTime' = currentTime
            /\ isPlaying' = isPlaying
            /\ cursorPosition' = cursorPosition
            /\ reconstructedDom' = reconstructedDom
            /\ replayUrl' = replayUrl]_vars

\* a tick at 4x, after a change of speed, was clamped at the end of a
\* session shorter than its increment
C29_ClampedAtEnd ==
    /\ op = "tick"
    /\ playbackSpeed = 8
    /\ getTotalDuration > 0
    /\ getTotalDuration < playbackSpeed
    /\ currentTime = getTotalDuration
    /\ ~isPlaying


(***************************************************************************)
(* The chunk endpoint with several requests in the handler.  The handler   *)
(* awaits the select on session_chunks and then the insert, so another     *)
(* request's select or insert can run between the two.  session_chunks has *)
(* a primary key on id only: an insert of a row with a hash that is stored *)
(* already succeeds.                                                       *)
(***************************************************************************)
\* requests in the handler at once, and requests that get past the lookup
MaxSubmits == 2
MaxRows == 3

\* request bodies for the session: two chunks with the same fingerprint (one
\* click at time 0 each, of different events) and one with another
SubmittedChunks ==
    {<<[id |-> 1, type |-> "click", time |-> 0, url |-> ""]>>,
     <<[id |-> 2, type |-> "click", time |-> 0, url |-> ""]>>,
     <<[id |-> 3, type |-> "click", time |-> 1, url |-> ""]>>}

\* A request's way through the handler up to its first await on
\* session_chunks: the credential checks pass, the session row is created
\* when there is none, and the fingerprint is computed.
receiveChunk(url, evs) ==
    /\ op' = "other"
    /\ keyValid
    /\ Len(submissions) < MaxSubmits
    /\ Len(chunks) + Len(submissions) < MaxRows
    /\ sessions' =
            IF sessions = {}
            THEN {[url |-> url, viewport_size |-> Null, user_agent |-> Null,
                   screen_resolution |-> Null, referrer |-> Null,
                   start_time |-> NoTime, end_time |-> NoTime]}
            ELSE sessions
    /\ submissions' = Append(submissions,
                             [events |-> evs,
                              chunkHash |-> generateChunkHash(SessionId, evs),
                              at |-> "select"])
    /\ UNCHANGED chunks

\* the select of request k answers: "Duplicate chunk skipped" when it found
\* the one row with the hash, otherwise on to the insert
selectChunk(k) ==
    /\ op' = "other"
    /\ submissions[k].at = "select"
    /\ submissions' =
            IF existingChunk(chunks, submissions[k].chunkHash)
            THEN RemoveAt(submissions, k)
            ELSE [submissions EXCEPT ![k].at = "insert"]
    /\ UNCHANGED <<sessions, chunks>>

\* the insert of request k stores its row, and the handler answers success
insertChunk(k) ==
    /\ op' = "other"
    /\ submissions[k].at = "insert"
    /\ chunks' = Append(chunks, [session_id |-> SessionId,
                                 events |-> submissions[k].events,
                                 hash |-> submissions[k].chunkHash])
    /\ submissions' = RemoveAt(submissions, k)
    /\ UNCHANGED sessions

submitIdle == <<upserts, posted, captureQuiet, replayVars, viewVars, elementVars,
                canvasVars, tracker, lastMouseMoveTime, clickEffect,
                 credential,
                 gesture,
                 limiter,
                 window>>

SubmitNext ==
    \/ \E url \in Urls, evs \in SubmittedChunks :
            receiveChunk(url, evs) /\ UNCHANGED submitIdle
    \/ \E k \in DOMAIN submissions : selectChunk(k) /\ UNCHANGED submitIdle
    \/ \E k \in DOMAIN submissions : insertChunk(k) /\ UNCHANGED submitIdle

SubmitSpec == Init /\ [][SubmitNext]_vars

\* C30: when submit-chunk requests with the same fingerprint are in the
\* handler together, with their lookups and inserts in any order, at most one
\* chunk with that fingerprint is stored.
C30_OneChunkPerFingerprint ==
    \A i, j \in DOMAIN chunks : chunks[i].hash = chunks[j].hash => i = j

(***************************************************************************)
(* The credential checks of the two ingestion endpoints.  An absolute URL  *)
(* as it is written is [scheme, host, port], port "" when none is written; *)
(* the api_keys table holds one row.  A status of 0 stands for a check     *)
(* that has not run, 200 for a request that got past it.                   *)
(***************************************************************************)
Hrefs == [scheme : {"http", "https"}, host : {"localhost", "shop.example"},
          port : {"", "80", "443", "3000"}]

ApiKeys == {"k1", "k2"}

\* new URL(href): hostname and port, the port empty when it is the scheme's
\* default
URL(href) ==
    [hostname |-> href.host,
     port |-> IF href.port = (IF href.scheme = "http" THEN "80" ELSE "443")
              THEN ""
              ELSE href.port]

\* normalizeUrl of the chunk endpoint: hostname, and ":" and the port if any
normalizeUrl(url) ==
    LET urlObj == URL(url)
    IN  IF urlObj.port # ""
        THEN <<urlObj.hostname, ":", urlObj.port>>
        ELSE <<urlObj.hostname>>

\* the check of createSessionHandler (upsert-session) on the row of api_keys
sessionCredential(row, apiKey, url) ==
    IF row.key # apiKey
    THEN 401
    ELSE IF URL(row.allowed_url).hostname # URL(url).hostname THEN 401 ELSE 200

\* the check of POST (submit-chunk) on the row of api_keys
chunkCredential(row, apiKey, url) ==
    IF row.key # apiKey
    THEN 401
    ELSE IF normalizeUrl(row.allowed_url) # normalizeUrl(url) THEN 401 ELSE 200

\* the row of api_keys and a client's key and page URL, before its requests
CredentialInit ==
    /\ CaptureInit
    /\ ReplayIdle
    /\ ViewIdle
    /\ ElementAbsent
    /\ CanvasAbsent
    /\ TrackerAbsent
    /\ PointerIdle
    /\ PulseIdle
    /\ SubmitIdle
    /\ GestureIdle
    /\ LimiterIdle
    /\ WindowIdle
    /\ \E allowed_url \in Hrefs, apiKey \in ApiKeys, url \in Hrefs :
        credential = [row |-> [key |-> "k1", allowed_url |-> allowed_url],
                      apiKey |-> apiKey, url |-> url, upsert |-> 0, chunk |-> 0]

\* the client's upsert-session request reaches the check
upsertSession ==
    /\ credential.upsert = 0
    /\ credential' = [credential EXCEPT
            !.upsert = sessionCredential(credential.row, credential.apiKey,
                                         credential.url)]

\* the client's submit-chunk request reaches the check
submitChunkCheck ==
    /\ credential.chunk = 0
    /\ credential' = [credential EXCEPT
            !.chunk = chunkCredential(credential.row, credential.apiKey,
                                      credential.url)]

credentialIdle == <<captureVars, replayVars, sessionVars, viewVars, elementVars,
                    canvasVars, tracker, lastMouseMoveTime, clickEffect, submissions,
                    gesture,
                 limiter,
                 window>>

CredentialNext ==
    \/ upsertSession /\ UNCHANGED credentialIdle
    \/ submitChunkCheck /\ UNCHANGED credentialIdle

CredentialSpec == CredentialInit /\ [][CredentialNext]_vars

\* C31: for every API key and page URL the two ingestion endpoints make the
\* same credential decision: upsert-session accepts the pair if and only if
\* submit-chunk accepts it.
C31_SameCredentialDecision ==
    credential.upsert # 0 /\ credential.chunk # 0
        => credential.upsert = credential.chunk

(***************************************************************************)
(* Playback from the loaded page without a seek or a restart: the page is  *)
(* loaded, played and paused, its speed is changed, and the interval       *)
(* ticks, for a session of events of any types and times.                  *)
(***************************************************************************)
AgreeNext ==
    \/ fetchSessionData
    \/ currentTime < getTotalDuration /\ handlePlayPause
    \/ \E speed \in Speeds : setPlaybackSpeed(speed)
    \/ tick

AgreeSpec == ReplayInit /\ [][AgreeNext]_vars

\* what handleTimelineChange(newTime) shows on the page as fetchSessionData
\* left it: the DOM, the cursor position and the URL
Sought(newTime) ==
    LET initialDomSnapshot == First(replayEvents, "dom_snapshot")
        lastEventBeforeTime == Last(replayEvents, {"mousemove", "click"}, newTime)
        lastDomSnapshot == Latest(replayEvents, "dom_snapshot", newTime)
        lastUrlChange == Latest(replayEvents, "session_start", newTime)
    IN  [reconstructedDom |->
            IF lastDomSnapshot # <<>> THEN lastDomSnapshot[1].id
            ELSE IF initialDomSnapshot # <<>> THEN initialDomSnapshot[1].id ELSE 0,
         cursorPosition |->
            IF lastEventBeforeTime # <<>> THEN lastEventBeforeTime[1].id ELSE 0,
         replayUrl |-> IF lastUrlChange # <<>> THEN lastUrlChange[1].id ELSE 0]

\* C32: for every timeline and every time T, the DOM, the cursor position
\* and the URL shown after tick playback from cursor 0 of the loaded page up
\* to T are those handleTimelineChange(T) shows, events at timestamp 0 and
\* events of equal timestamps included.
C32_SeekAndPlaybackAgree ==
    op = "tick" =>
        Sought(currentTime) =
            [reconstructedDom |-> reconstructedDom,
             cursorPosition |-> cursorPosition,
             replayUrl |-> replayUrl]

(***************************************************************************)
(* Freehand gestures on a canvas with a 2d context, on a page that is      *)
(* being recorded.  Every listener on the canvas is an arrow function of   *)
(* its own, so addEventListener never finds it registered already; a       *)
(* listener added while an event is dispatched is not run for that event.  *)
(***************************************************************************)
MaxSnapshots == 2
MaxGestures == 2

\* the listener pairs on the canvas after this many more runs of
\* processCanvasElement, each of which ends with setupCanvasTracking
setupCanvasTracking(listeners, runs) == listeners + runs

\* the page after new RecordingScript(apiKey), before start()
GestureInit ==
    /\ CaptureInit
    /\ ReplayIdle
    /\ ViewIdle
    /\ ElementAbsent
    /\ CanvasAbsent
    /\ TrackerAbsent
    /\ PointerIdle
    /\ PulseIdle
    /\ SubmitIdle
    /\ CredentialIdle
    /\ LimiterIdle
    /\ WindowIdle
    /\ gesture = [recording |-> FALSE, listeners |-> 0, timeouts |-> 0,
                  phase |-> "none", gestures |-> 0, snapshots |-> 0,
                  down |-> 0, up |-> 0]

\* start(): setupCanvasListeners puts one pair of listeners on the canvas,
\* captureInitialDomState processes the canvas once
startTracking ==
    /\ ~gesture.recording
    /\ gesture' = [gesture EXCEPT
            !.recording = TRUE,
            !.listeners = setupCanvasTracking(1, 1)]

\* captureFullDomSnapshot on another occasion (the 10 s timer, a burst of
\* mutations, a scroll): it processes the canvas once
snapshotCanvas ==
    /\ gesture.recording
    /\ gesture.snapshots < MaxSnapshots
    /\ gesture' = [gesture EXCEPT
            !.snapshots = @ + 1,
            !.listeners = setupCanvasTracking(@, 1)]

\* the pointer goes down on the canvas: each mousedown listener takes a
\* snapshot
mousedown ==
    /\ gesture.recording
    /\ gesture.phase \in {"none", "over"}
    /\ gesture.timeouts = 0
    /\ gesture.gestures < MaxGestures
    /\ gesture' = [gesture EXCEPT
            !.phase = "down",
            !.gestures = @ + 1,
            !.down = gesture.listeners,
            !.up = 0,
            !.listeners = setupCanvasTracking(@, gesture.listeners)]

\* the pointer goes up: each mouseup listener sets a timeout of 50 ms
mouseup ==
    /\ gesture.phase = "down"
    /\ gesture' = [gesture EXCEPT !.phase = "up", !.timeouts = gesture.listeners]

\* one of the timeouts fires, 50 ms after the pointer went up, and takes a
\* snapshot; with the last of them the gesture is over
gestureTimeout ==
    /\ gesture.timeouts > 0
    /\ gesture' = [gesture EXCEPT
            !.timeouts = @ - 1,
            !.up = @ + 1,
            !.phase = IF gesture.timeouts = 1 THEN "over" ELSE @,
            !.listeners = setupCanvasTracking(@, 1)]

gestureIdle == <<captureVars, replayVars, sessionVars, viewVars, elementVars,
                 canvasVars, tracker, lastMouseMoveTime, clickEffect, submissions,
                 credential, limiter,
                 window>>

GestureNext ==
    \/ startTracking /\ UNCHANGED gestureIdle
    \/ snapshotCanvas /\ UNCHANGED gestureIdle
    \/ mousedown /\ UNCHANGED gestureIdle
    \/ mouseup /\ UNCHANGED gestureIdle
    \/ gestureTimeout /\ UNCHANGED gestureIdle

GestureSpec == GestureInit /\ [][GestureNext]_vars

\* C33: a gesture on a canvas is bracketed by exactly one snapshot on
\* pointer-down and exactly one 50 ms after pointer-up, however many
\* snapshots were taken of the canvas before.
C33_GestureBracketed ==
    /\ gesture.phase \in {"down", "up", "over"} => gesture.down = 1
    /\ gesture.phase = "over" => gesture.up = 1

(***************************************************************************)
(* The rate limiter (globalRateLimiter, one instance for the routes that   *)
(* import it).  this.store maps an identity to [count, resetTime]; a       *)
(* result is [success, limit, remaining, reset].                           *)
(***************************************************************************)
GET_RATE_LIMIT == 120
GET_RATE_LIMIT_WINDOW == 60000
DELETE_RATE_LIMIT == 20
DELETE_RATE_LIMIT_WINDOW == 60000

\* A limiter that lets every call through
isRateLimited_Never(count, limit) == FALSE

\* this.store[key].count > limit
isRateLimited(count, limit) == count > limit

\* rateLimit({request, limit, windowMs}) for a request of identity key when
\* Date.now() reads t: the store it leaves and the result it returns
rateLimit(store, key, limit, windowMs, t) ==
    LET opened == IF key \notin DOMAIN store \/ store[key].resetTime < t
                  THEN [count |-> 0, resetTime |-> t + windowMs]
                  ELSE store[key]
        entry == [opened EXCEPT !.count = @ + 1]
    IN  [store |-> [k \in DOMAIN store \cup {key} |->
                        IF k = key THEN entry ELSE store[k]],
         result |-> [success |-> ~isRateLimited(entry.count, limit),
                     limit |-> limit,
                     remaining |-> IF limit - entry.count > 0
                                   THEN limit - entry.count
                                   ELSE 0,
                     reset |-> entry.resetTime]]

\* the rate-limited handlers of api/sessions/route.ts that take the default
\* identity, the client's address
Endpoints ==
    {[name |-> "GET", limit |-> GET_RATE_LIMIT, windowMs |-> GET_RATE_LIMIT_WINDOW],
     [name |-> "DELETE", limit |-> DELETE_RATE_LIMIT,
      windowMs |-> DELETE_RATE_LIMIT_WINDOW]}

\* the server as it comes up: an empty store; own counts, as history, the
\* requests of the client to each endpoint in the open window
EndpointInit ==
    /\ CaptureInit
    /\ ReplayIdle
    /\ ViewIdle
    /\ ElementAbsent
    /\ CanvasAbsent
    /\ TrackerAbsent
    /\ PointerIdle
    /\ PulseIdle
    /\ SubmitIdle
    /\ CredentialIdle
    /\ GestureIdle
    /\ WindowIdle
    /\ limiter = [now |-> 0, store |-> <<>>,
                  own |-> [name \in {"GET", "DELETE"} |-> 0],
                  last |-> [endpoint |-> "", success |-> TRUE, limit |-> 0,
                            remaining |-> 0, reset |-> 0]]

\* rateLimitedHandler of withRateLimit for a request of the client to this
\* endpoint, within the minute of the client's first request
withRateLimit(endpoint) ==
    /\ "client" \in DOMAIN limiter.store =>
            limiter.store["client"].count <= GET_RATE_LIMIT
    /\ LET r == rateLimit(limiter.store, "client", endpoint.limit, endpoint.windowMs,
                          limiter.now)
       IN  limiter' = [limiter EXCEPT
                !.store = r.store,
                !.own[endpoint.name] = @ + 1,
                !.last = [endpoint |-> endpoint.name,
                          success |-> r.result.success,
                          limit |-> r.result.limit,
                          remaining |-> r.result.remaining,
                          reset |-> r.result.reset]]

limiterIdle == <<captureVars, replayVars, sessionVars, viewVars, elementVars,
                 canvasVars, tracker, lastMouseMoveTime, clickEffect, submissions,
                 credential, gesture, window>>

EndpointNext ==
    \E endpoint \in Endpoints : withRateLimit(endpoint) /\ UNCHANGED limiterIdle

EndpointSpec == EndpointInit /\ [][EndpointNext]_vars

\* C34: the budgets of different endpoints are independent: a request of a
\* client to an endpoint is rejected with 429 only when the client's own
\* requests to that endpoint in the window exceed the endpoint's limit.
C34_IndependentBudgets ==
    limiter.last.endpoint # "" /\ ~limiter.last.success
        => limiter.own[limiter.last.endpoint] > limiter.last.limit

(***************************************************************************)
(* The rate limiter under calls of any identity and limit, with the clock  *)
(* passing and the cleanup interval firing.  As history, the window of an  *)
(* identity is kept by the clock alone: it opens with the first call, or   *)
(* the first call after its reset time, and ends at that call's time plus  *)
(* the window length.                                                      *)
(***************************************************************************)
MaxLimit == 2
MaxClock == 4
MaxRequests == 5
WindowMs == 2

Limits == 1..MaxLimit

Identities == {"10.0.0.1", "apikey:k1"}

NoWindow == [reset |-> -1, seen |-> 0, granted |-> [limit \in Limits |-> 0],
             refused |-> {}]

LimitInit ==
    /\ CaptureInit
    /\ ReplayIdle
    /\ ViewIdle
    /\ ElementAbsent
    /\ CanvasAbsent
    /\ TrackerAbsent
    /\ PointerIdle
    /\ PulseIdle
    /\ SubmitIdle
    /\ CredentialIdle
    /\ GestureIdle
    /\ WindowIdle
    /\ limiter = [now |-> 0, store |-> <<>>, requests |-> 0,
                  window |-> [key \in Identities |-> NoWindow],
                  last |-> [key |-> "", success |-> TRUE, limit |-> 0,
                            remaining |-> 0, reset |-> 0]]

\* a request of identity key reaches a handler wrapped with this limit
limitedRequest(key, limit) ==
    /\ limiter.requests < MaxRequests
    /\ LET r == rateLimit(limiter.store, key, limit, WindowMs, limiter.now)
           w == limiter.window[key]
           open == IF w.reset = -1 \/ limiter.now > w.reset
                   THEN [NoWindow EXCEPT !.reset = limiter.now + WindowMs]
                   ELSE w
       IN  limiter' = [limiter EXCEPT
                !.store = r.store,
                !.requests = @ + 1,
                !.window[key] =
                    [open EXCEPT
                        !.seen = @ + 1,
                        !.granted[limit] = IF r.result.success THEN @ + 1 ELSE @,
                        !.refused = IF r.result.success THEN @ ELSE @ \cup {limit}],
                !.last = [key |-> key,
                          success |-> r.result.success,
                          limit |-> r.result.limit,
                          remaining |-> r.result.remaining,
                          reset |-> r.result.reset]]

\* cleanup(), run by the interval: the entries whose reset time has passed
\* are deleted
cleanup ==
    limiter' = [limiter EXCEPT
        !.store = [k \in {k \in DOMAIN limiter.store :
                            ~(limiter.store[k].resetTime < limiter.now)} |->
                        limiter.store[k]]]

\* a millisecond passes
passTime ==
    /\ limiter.now < MaxClock
    /\ limiter' = [limiter EXCEPT !.now = @ + 1]

LimitNext ==
    \/ \E key \in Identities, limit \in Limits :
            limitedRequest(key, limit) /\ UNCHANGED limiterIdle
    \/ cleanup /\ UNCHANGED limiterIdle
    \/ passTime /\ UNCHANGED limiterIdle

LimitSpec == LimitInit /\ [][LimitNext]_vars

\* C35: for every identity and every window, from the creation of the window
\* entry until its reset time at most limit calls of rateLimit with a limit
\* succeed, every further call with it in the window fails, and the remaining
\* value reported is max(0, limit - count), count being the calls of the
\* window so far.
C35_RateLimitBound ==
    /\ \A key \in DOMAIN limiter.store :
        LET w == limiter.window[key]
        IN  /\ limiter.store[key].resetTime = w.reset
            /\ limiter.store[key].count = w.seen
    /\ \A key \in Identities, limit \in Limits :
            limiter.window[key].granted[limit] <= limit
    /\ limiter.last.key # "" =>
        LET w == limiter.window[limiter.last.key]
            left == limiter.last.limit - w.seen
        IN  /\ limiter.last.success <=> w.seen <= limiter.last.limit
            /\ limiter.last.success => limiter.last.limit \notin w.refused
            /\ limiter.last.remaining = IF left > 0 THEN left ELSE 0
            /\ limiter.last.reset = w.reset

\* in a later window of an identity, a limit's worth of calls have succeeded
\* and the next call with that limit has been refused
C35_RefusedBeyondLimit ==
    /\ limiter.last.key # ""
    /\ ~limiter.last.success
    /\ limiter.last.limit = MaxLimit
    /\ LET w == limiter.window[limiter.last.key]
       IN  /\ w.reset > WindowMs
           /\ w.seen = limiter.last.limit + 1
           /\ w.granted[limiter.last.limit] = limiter.last.limit

\* C36: a submitted chunk whose fingerprint equals that of a stored chunk is
\* not stored, whatever its events: when its lookup has run, the handler
\* answers ("Duplicate chunk skipped", success) without going on to the
\* insert, and the table is as before.
C36_CollidingChunkSkipped ==
    [][\A k \in DOMAIN submissions :
            /\ submissions[k].at = "select"
            /\ \E i \in DOMAIN chunks : chunks[i].hash = submissions[k].chunkHash
            /\ selectChunk(k)
            => /\ submissions' = RemoveAt(submissions, k)
               /\ chunks' = chunks]_vars

(***************************************************************************)
(* Playback that nothing interrupts: the timeline is dragged and play is   *)
(* pressed only while the page is paused, the speed buttons are pressed at *)
(* any time, and the interval keeps firing while it is set.                *)
(***************************************************************************)
MaxRun == 6

\* A page before its first effect runs, for a session of a snapshot and a
\* click at most MaxRun units of time later
RunInit ==
    /\ CaptureInit
    /\ \E last \in 0..MaxRun :
        chunksData = <<[events |-> <<[id |-> 1, type |-> "dom_snapshot", time |-> 0],
                                     [id |-> 2, type |-> "click", time |-> last]>>]>>
    /\ loaded = FALSE
    /\ replayEvents = <<>>
    /\ currentTime = 0
    /\ isPlaying = FALSE
    /\ cursorPosition = 0
    /\ reconstructedDom = 0
    /\ replayUrl = -1
    /\ playbackSpeed = 2
    /\ playFrom = 0
    /\ playLog = <<>>
    /\ ViewIdle
    /\ PageIdle

RunNext ==
    \/ fetchSessionData
    \/ ~isPlaying /\ handlePlayPause
    \/ \E speed \in Speeds : setPlaybackSpeed(speed)
    \/ \E newTime \in 0..getTotalDuration : ~isPlaying /\ handleTimelineChange(newTime)
    \/ tick

RunSpec == RunInit /\ [][RunNext]_vars /\ WF_vars(tick)

\* C37: from any cursor position, once playback is started and the ticks
\* keep firing, the cursor reaches the total duration and isPlaying becomes
\* false; while isPlaying is false no tick runs, so the cursor stays and no
\* event is dispatched.
C37_PlaybackTerminates ==
    /\ isPlaying ~> (~isPlaying /\ currentTime = getTotalDuration)
    /\ [](~isPlaying => ~ENABLED tick)

\* playback started in the middle of a session has run to its end
C37_RanToTheEnd ==
    /\ op = "tick"
    /\ ~isPlaying
    /\ currentTime = getTotalDuration
    /\ 0 < playFrom
    /\ playFrom + playbackSpeed < getTotalDuration
    /\ playLog # <<>>

(***************************************************************************)
(* The page's script tag and its owner: initializeRecording is called any  *)
(* number of times, with or without a key; the recorder it returned is     *)
(* stopped (by the beforeunload listener or by its owner), the user        *)
(* clicks, the flush interval fires and the requests are answered.         *)
(***************************************************************************)
MaxInits == 3

\* A guard that never finds the instance
hasInstance_Never(w) == FALSE

\* if (window._hotcloneRecorderInstance)
hasInstance(w) == w.instance

\* the page after the script has run, before any call
InstanceInit ==
    /\ CaptureInit
    /\ ReplayIdle
    /\ ViewIdle
    /\ ElementAbsent
    /\ CanvasAbsent
    /\ TrackerAbsent
    /\ PointerIdle
    /\ PulseIdle
    /\ SubmitIdle
    /\ CredentialIdle
    /\ GestureIdle
    /\ LimiterIdle
    /\ window = [instance |-> FALSE, calls |-> 0, made |-> 0, started |-> 0,
                 unload |-> 0, intervals |-> 0, returned |-> "none"]

\* window.initializeRecording(apiKey), apiKey "" standing for a missing key
initializeRecording(apiKey, t) ==
    /\ window.calls < MaxInits
    /\ IF hasInstance(window)
       THEN /\ window' = [window EXCEPT !.calls = @ + 1, !.returned = "instance"]
            /\ op' = "other"
            /\ UNCHANGED <<captureQuiet, chunks>>
       ELSE IF apiKey = ""
       THEN /\ window' = [window EXCEPT !.calls = @ + 1, !.returned = "undefined"]
            /\ op' = "other"
            /\ UNCHANGED <<captureQuiet, chunks>>
       ELSE /\ window' = [instance |-> TRUE,
                          calls |-> window.calls + 1,
                          made |-> window.made + 1,
                          started |-> IF isRecording THEN window.started
                                      ELSE window.started + 1,
                          unload |-> window.unload + 1,
                          intervals |-> window.intervals + 1,
                          returned |-> "instance"]
            /\ start(t)

instanceIdle == <<replayVars, sessionVars, viewVars, elementVars, canvasVars,
                  tracker, lastMouseMoveTime, clickEffect, submissions, credential,
                  gesture, limiter>>

InstanceNext ==
    \/ \E apiKey \in {"", "k1"}, t \in Clock :
            initializeRecording(apiKey, t) /\ UNCHANGED instanceIdle
    \/ \E t \in Clock : stop(t) /\ UNCHANGED <<instanceIdle, window>>
    \/ \E t \in Clock : handleClick(t) /\ UNCHANGED <<instanceIdle, window>>
    \/ window.intervals > 0 /\ periodicFlush /\ UNCHANGED <<instanceIdle, window>>
    \/ \E k \in DOMAIN inflight : upsertOk(k) /\ UNCHANGED <<instanceIdle, window>>
    \/ \E k \in DOMAIN inflight : chunkOk(k) /\ UNCHANGED <<instanceIdle, window>>

InstanceSpec == InstanceInit /\ [][InstanceNext]_vars

\* C38: any number of calls of initializeRecording on a page construct at
\* most one recorder and start it once, with one beforeunload listener and
\* one flush interval; a call that finds the instance returns it and leaves
\* the recorder, its listeners, its observer and its timers as they are.
C38_SingleInstance ==
    [][/\ window'.made <= 1
       /\ window'.started <= 1
       /\ window'.unload <= 1
       /\ window'.intervals <= 1
       /\ (window.instance /\ window'.calls # window.calls) =>
            /\ window'.returned = "instance"
            /\ window'.made = window.made
            /\ UNCHANGED <<isRecording, listening, snapshotInterval,
                           mutationObserver, events, inflight, nextId>>]_vars

\* the recorder was stopped, and a later call returned it as it was
C38_ReturnedStopped ==
    /\ window.calls = MaxInits
    /\ window.made = 1
    /\ window.returned = "instance"
    /\ ~isRecording
    /\ ~listening

(***************************************************************************)
(* The pending-mutation queue under timers that fire: the observer's       *)
(* callback, the 10 s snapshot timer and the setTimeout of a deferred      *)
(* drain, which runs at its due time or later.  The page is quiet after    *)
(* MaxStrand ms; a timer set before then still fires.                      *)
(***************************************************************************)
MaxStrand == 500

\* The recorder after start() and the answers to its first upsert and chunk:
\* recording, the listeners, the snapshot interval and the MutationObserver
\* set up, the buffer flushed.  The events are numbered from here, and the
\* service is left out: no handler below reaches the buffer limit.
StrandInit ==
    /\ events = <<>>
    /\ isRecording = TRUE
    /\ location = "/a"
    /\ currentUrl = location
    /\ listening = TRUE
    /\ snapshotInterval = TRUE
    /\ inflight = <<>>
    /\ lastDomSnapshotTime = 0
    /\ mutationObserver = TRUE
    /\ pendingMutations = NoRecords
    /\ processingMutations = FALSE
    /\ drainDue = 0
    /\ now = 0
    /\ keyValid = TRUE
    /\ chunks = <<>>
    /\ nextId = 1
    /\ faults = 0
    /\ accepted = {}
    /\ rejected = FALSE
    /\ skipped = {}
    /\ op = "start"
    /\ sessions = {}
    /\ upserts = {}
    /\ posted = 0
    /\ ReplayIdle /\ ViewIdle /\ PageIdle

\* Date.now() as a handler of the page reads it
StrandClock ==
    {t \in {now + d : d \in {0, domSnapshotThrottle - 1, domSnapshotThrottle}} :
        t <= MaxStrand}

\* the times at which the pending setTimeout can run
StrandDue ==
    {t \in {drainDue - PageLoad, now} : t >= now /\ DateNow(t) >= drainDue}

\* the page's handlers leave room in the bounded buffer for the event of the
\* pending drain
RoomToDrain == nextId' <= MaxEvents + MaxObserved

deferredDrain == \E t \in StrandDue : drainTimer(t) /\ UNCHANGED beyondCapture

StrandNext ==
    \/ \E t \in StrandClock : snapshotTimer(t) /\ RoomToDrain /\ UNCHANGED beyondCapture
    \/ \E batch \in Single, t \in StrandClock :
          observe(batch, t) /\ RoomToDrain /\ UNCHANGED beyondCapture
    \/ deferredDrain

StrandSpec == StrandInit /\ [][StrandNext]_vars /\ WF_vars(deferredDrain)

====
